---- MODULE Spec2Model ----
(***************************************************************************)
(* A model of the crypto_primitives package: the BIP-32 derivation engine  *)
(* (bip32.py), the BIP-44 path builders (bip44.py) and the Base58Check     *)
(* encoding layer (utils/base58.py).                                       *)
(*                                                                         *)
(* Scaling.  TLC has 32-bit integers and cannot run 256-bit curve          *)
(* arithmetic, so the widths of the key material are scaled:               *)
(*   - secp256k1 (y^2 = x^3 + 7 over F_P, prime group order N) is scaled   *)
(*     to the curve with the same equation over F_211, whose group has     *)
(*     prime order 199; as for secp256k1, every scalar in 1..N-1 gives a   *)
(*     point other than the identity;                                      *)
(*   - a "256-bit string" (32 bytes in the source) is KeyLen digits of     *)
(*     radix KeyBase, big-endian, and 2^7 < N < P < KeyBase^KeyLen = 2^8   *)
(*     as 2^255 < N < P < 2^256 in the source;                             *)
(*   - the digests of hashlib/hmac are deterministic mixing functions of   *)
(*     their input (Absorb/Squeeze): same input, same output, and nothing  *)
(*     else is assumed of them.                                            *)
(* Child indices, seed lengths, path strings and Base58 data keep their    *)
(* real values: an index is a Python int held in two 16-bit limbs (Wide),  *)
(* a path is the sequence of its characters, Base58 works on real bytes    *)
(* with arbitrary-precision arithmetic on byte strings.                    *)
(***************************************************************************)
EXTENDS Integers, Sequences, FiniteSets, TLC

VARIABLES cur, last, b58, mn, sig, objs, ec

vars == <<cur, last, b58, mn, sig, objs, ec>>

(***************************************************************************)
(* Bounds of the model.                                                    *)
(***************************************************************************)
MaxDepth == 2
MaxSegs == 2
MaxPayload == 3
MaxCalls == 3
MaxChain == 256
MaxObjs == 3
MaxScalar == 400

(***************************************************************************)
(* Scaled widths and curve parameters (bip32.py).                          *)
(***************************************************************************)
KeyLen == 2
KeyBase == 16
N == 199
P == 211
GX == 3
GY == 33

(***************************************************************************)
(* Sequence helpers (Python slicing and string methods).                   *)
(***************************************************************************)
Max(a, b) == IF a >= b THEN a ELSE b

Min(a, b) == IF a <= b THEN a ELSE b

\* s[:n]
Take(s, n) == SubSeq(s, 1, Min(Len(s), Max(n, 0)))

\* s[n:]
Drop(s, n) == SubSeq(s, Min(Len(s), Max(n, 0)) + 1, Len(s))

\* s[:-n]
DropLast(s, n) == SubSeq(s, 1, Max(Len(s) - n, 0))

\* s[-n:]
TakeLast(s, n) == SubSeq(s, Max(Len(s) - n, 0) + 1, Len(s))

EndsWith(s, c) == Len(s) > 0 /\ s[Len(s)] = c

Repeat(c, n) == SubSeq([i \in 1..n |-> c], 1, n)

(***************************************************************************)
(* hashlib / hmac: deterministic mixing functions standing for the         *)
(* digests.  Squeeze(tag, s, n, base) is an n-digit digest of s.           *)
(***************************************************************************)
RECURSIVE Absorb(_, _, _, _)
Absorb(h, s, lo, hi) ==
    IF lo > hi THEN h
    ELSE IF lo = hi THEN (h * h + 31 * h + 257 * s[lo] + 17 * lo + 1) % 32749
    ELSE CHOOSE out \in
             {(a * b + 3 * a + 7 * b + 11) % 32749 :
                  a \in {Absorb(h, s, lo, (lo + hi) \div 2)},
                  b \in {Absorb(h + 1, s, ((lo + hi) \div 2) + 1, hi)}} : TRUE

Squeeze(tag, s, n, base) ==
    SubSeq([i \in 1..n |-> (Absorb(tag * 64 + i, s, 1, Len(s)) \div 7) % base],
           1, n)

\* hmac.new(key, data, hashlib.sha512).digest(): 64 bytes, here 2*KeyLen digits
hmac_sha512(key, data) ==
    Squeeze(1, <<Len(key)>> \o key \o data, 2 * KeyLen, KeyBase)

\* hashlib.sha256(data).digest(): 32 bytes in the source, 6 here
sha256(data) == Squeeze(2, data, 6, 256)

\* hashlib.new("ripemd160", data).digest(): 20 bytes in the source, 5 here
ripemd160(data) == Squeeze(3, data, 5, 256)

(***************************************************************************)
(* Python ints wider than 31 bits: value = hi * 2^16 + lo, 0 <= lo < 2^16. *)
(***************************************************************************)
Wide(hi, lo) == [hi |-> hi, lo |-> lo]

WZero == Wide(0, 0)

\* 0x80000000
HARDENED == Wide(32768, 0)

WAdd(a, b) ==
    LET s == a.lo + b.lo
    IN  Wide(a.hi + b.hi + (s \div 65536), s % 65536)

WGe(a, b) == a.hi > b.hi \/ (a.hi = b.hi /\ a.lo >= b.lo)

WNeg(a) ==
    IF a.lo = 0 THEN Wide(0 - a.hi, 0) ELSE Wide(0 - a.hi - 1, 65536 - a.lo)

WMul10Add(a, d) ==
    LET t == a.lo * 10 + d
    IN  Wide(a.hi * 10 + (t \div 65536), t % 65536)

\* a small int as a Python int
WOf(n) == IF n >= 0 THEN Wide(0, n) ELSE WNeg(Wide(0, 0 - n))

(***************************************************************************)
(* bip32.py: serialization helpers.                                        *)
(***************************************************************************)
Value(v) == [err |-> "", val |-> v]

Error(kind) == [err |-> kind, val |-> <<>>]

\* struct.pack(">I", i): struct.error unless 0 <= i < 2^32
_ser32(i) ==
    IF i.hi < 0 \/ i.hi >= 65536 THEN Error("StructError")
    ELSE Value(<<i.hi \div 256, i.hi % 256, i.lo \div 256, i.lo % 256>>)

\* k.to_bytes(32, "big")
_ser256(k) ==
    SubSeq([i \in 1..KeyLen |-> (k \div (KeyBase ^ (KeyLen - i))) % KeyBase],
           1, KeyLen)

\* int.from_bytes(b, "big")
RECURSIVE FromDigits(_, _, _)
FromDigits(b, base, acc) ==
    IF b = <<>> THEN acc ELSE FromDigits(Tail(b), base, acc * base + Head(b))

_parse256(b) == FromDigits(b, KeyBase, 0)

(***************************************************************************)
(* bip32.py: _point, the curve engine.  None (the identity) is <<>>.       *)
(***************************************************************************)
Infinity == <<>>

\* pow(b, e, P), by squaring
RECURSIVE PowMod(_, _)
PowMod(b, e) ==
    IF e = 0 THEN 1
    ELSE CHOOSE out \in
             {IF e % 2 = 1 THEN (h * h * b) % P ELSE (h * h) % P :
                  h \in {PowMod(b, e \div 2)}} : TRUE

\* pow(a, -1, P): the inverse of a modulo the prime P (a is never 0 modulo P:
\* no point of the curve has y = 0)
ModInv(a) == PowMod(a % P, P - 2)

point_add(p1, p2) ==
    IF p1 = Infinity THEN p2
    ELSE IF p2 = Infinity THEN p1
    ELSE LET x1 == p1[1]
             y1 == p1[2]
             x2 == p2[1]
             y2 == p2[2]
         IN  IF x1 = x2 /\ y1 # y2 THEN Infinity
             ELSE LET lam == IF x1 = x2
                             THEN ((3 * x1 * x1) * ModInv(2 * y1)) % P
                             ELSE ((y2 - y1) * ModInv(x2 - x1)) % P
                      x3 == (lam * lam - x1 - x2) % P
                      y3 == (lam * (x1 - x3) - y1) % P
                  IN  <<x3, y3>>

\* the while loop of scalar_multiply; r and a are the values of result and
\* addend after one turn of the loop (bound, so that each is computed once)
RECURSIVE DoubleAndAdd(_, _, _)
DoubleAndAdd(k_val, result, addend) ==
    IF k_val = 0 THEN result
    ELSE CHOOSE out \in
             {DoubleAndAdd(k_val \div 2, r, a) :
                  r \in {IF k_val % 2 = 1 THEN point_add(result, addend) ELSE result},
                  a \in {point_add(addend, addend)}} : TRUE

scalar_multiply_skips_low_bit(k_val, point) ==
    DoubleAndAdd(k_val \div 2, Infinity, point_add(point, point))

scalar_multiply(k_val, point) == DoubleAndAdd(k_val, Infinity, point)

_point(k) ==
    LET pub == scalar_multiply(k, <<GX, GY>>)
    IN  IF pub = Infinity THEN Error("InvalidKey")
        ELSE Value(<<IF pub[2] % 2 = 0 THEN 2 ELSE 3>> \o _ser256(pub[1]))

(***************************************************************************)
(* bip32.py: class ExtendedKey.                                            *)
(***************************************************************************)
ExtendedKey(key, chain_code, depth, parent_fingerprint, child_index, is_private) ==
    [key |-> key, chain_code |-> chain_code, depth |-> depth,
     parent_fingerprint |-> parent_fingerprint, child_index |-> child_index,
     is_private |-> is_private]

\* no key (None)
NoKey == ExtendedKey(<<>>, <<>>, 0 - 1, <<>>, WZero, FALSE)

public_key(self) ==
    IF self.is_private THEN _point(_parse256(self.key)) ELSE Value(self.key)

fingerprint_of_key_material(self) == Value(Take(ripemd160(sha256(self.key)), 4))

fingerprint(self) ==
    LET pub == public_key(self)
    IN  IF pub.err # "" THEN pub
        ELSE Value(Take(ripemd160(sha256(pub.val)), 4))

(***************************************************************************)
(* Results of the operations: status "ok" and a node, or the error raised. *)
(* calls are the indices handed to derive_child, nHmac the HMACs computed, *)
(* nPoint the scalar multiplications made.                                 *)
(***************************************************************************)
Result(status, node, calls, nHmac, nPoint) ==
    [status |-> status, node |-> node, calls |-> calls, nHmac |-> nHmac,
     nPoint |-> nPoint]

Return(node, nHmac, nPoint) == Result("ok", node, <<>>, nHmac, nPoint)

Raise(kind, nHmac, nPoint) == Result(kind, NoKey, <<>>, nHmac, nPoint)

neuter_keeps_key(self) ==
    IF ~self.is_private THEN Return(self, 0, 0)
    ELSE Return(ExtendedKey(self.key, self.chain_code, self.depth,
                            self.parent_fingerprint, self.child_index, FALSE), 0, 0)

neuter(self) ==
    IF ~self.is_private THEN Return(self, 0, 0)
    ELSE LET pub == public_key(self)
         IN  IF pub.err # "" THEN Raise(pub.err, 0, 1)
             ELSE Return(ExtendedKey(pub.val, self.chain_code, self.depth,
                                     self.parent_fingerprint, self.child_index,
                                     FALSE), 0, 1)

(***************************************************************************)
(* bip32.py: from_seed.                                                    *)
(***************************************************************************)
\* b"Bitcoin seed"
BitcoinSeed == <<66, 105, 116, 99, 111, 105, 110, 32, 115, 101, 101, 100>>

from_seed_off_by_one(seed) ==
    IF Len(seed) <= 16 \/ Len(seed) > 64 THEN Raise("InvalidSeedLength", 0, 0)
    ELSE LET I == hmac_sha512(BitcoinSeed, seed)
             IL == Take(I, KeyLen)
             IR == Drop(I, KeyLen)
             key == _parse256(IL)
         IN  IF key = 0 \/ key > N THEN Raise("InvalidMasterKey", 1, 0)
             ELSE Return(ExtendedKey(IL, IR, 0, <<0, 0, 0, 0>>, WZero, TRUE), 1, 0)

from_seed(seed) ==
    IF Len(seed) < 16 \/ Len(seed) > 64 THEN Raise("InvalidSeedLength", 0, 0)
    ELSE LET I == hmac_sha512(BitcoinSeed, seed)
             IL == Take(I, KeyLen)
             IR == Drop(I, KeyLen)
             key == _parse256(IL)
         IN  IF key = 0 \/ key >= N THEN Raise("InvalidMasterKey", 1, 0)
             ELSE Return(ExtendedKey(IL, IR, 0, <<0, 0, 0, 0>>, WZero, TRUE), 1, 0)

(***************************************************************************)
(* bip32.py: derive_child.                                                 *)
(***************************************************************************)
\* the HMAC input: [err, val, nPoint]
HmacInput(err, val, nPoint) == [err |-> err, val |-> val, nPoint |-> nPoint]

hmac_data_no_private_check(parent, index) ==
    LET s == _ser32(index)
    IN  IF WGe(index, HARDENED)
        THEN IF s.err # "" THEN HmacInput(s.err, <<>>, 0)
             ELSE HmacInput("", <<0>> \o parent.key \o s.val, 0)
        ELSE LET pub == public_key(parent)
                 n == IF parent.is_private THEN 1 ELSE 0
             IN  IF pub.err # "" THEN HmacInput(pub.err, <<>>, n)
                 ELSE IF s.err # "" THEN HmacInput(s.err, <<>>, n)
                 ELSE HmacInput("", pub.val \o s.val, n)

hmac_data(parent, index) ==
    LET hardened == WGe(index, HARDENED)
        s == _ser32(index)
    IN  IF hardened
        THEN IF ~parent.is_private THEN HmacInput("InvalidDerivation", <<>>, 0)
             ELSE IF s.err # "" THEN HmacInput(s.err, <<>>, 0)
             ELSE HmacInput("", <<0>> \o parent.key \o s.val, 0)
        ELSE LET pub == public_key(parent)
                 n == IF parent.is_private THEN 1 ELSE 0
             IN  IF pub.err # "" THEN HmacInput(pub.err, <<>>, n)
                 ELSE IF s.err # "" THEN HmacInput(s.err, <<>>, n)
                 ELSE HmacInput("", pub.val \o s.val, n)

new_child_same_depth(parent, child_key, IR, fp, index, is_private) ==
    ExtendedKey(child_key, IR, parent.depth, fp, index, is_private)

new_child(parent, child_key, IR, fp, index, is_private) ==
    ExtendedKey(child_key, IR, parent.depth + 1, fp, index, is_private)

child_from_hmac_keeps_zero(parent, index, I, nPoint) ==
    LET IL == Take(I, KeyLen)
        IR == Drop(I, KeyLen)
        il_int == _parse256(IL)
    IN  IF il_int >= N THEN Raise("InvalidChildKey", 1, nPoint)
        ELSE IF parent.is_private
        THEN LET key_int == (il_int + _parse256(parent.key)) % N
             IN  CHOOSE out \in
                     {IF fp.err # "" THEN Raise(fp.err, 1, nPoint + 1)
                      ELSE Return(new_child(parent, _ser256(key_int), IR,
                                            fp.val, index, TRUE),
                                  1, nPoint + 1) :
                          fp \in {fingerprint(parent)}} : TRUE
        ELSE Raise("NotImplemented", 1, nPoint)

\* lines 191-216, once I is known
child_from_hmac(parent, index, I, nPoint) ==
    LET IL == Take(I, KeyLen)
        IR == Drop(I, KeyLen)
        il_int == _parse256(IL)
    IN  IF il_int >= N THEN Raise("InvalidChildKey", 1, nPoint)
        ELSE IF parent.is_private
        THEN LET key_int == (il_int + _parse256(parent.key)) % N
             IN  IF key_int = 0 THEN Raise("InvalidChildKey", 1, nPoint)
                 ELSE CHOOSE out \in
                          {IF fp.err # "" THEN Raise(fp.err, 1, nPoint + 1)
                           ELSE Return(new_child(parent, _ser256(key_int), IR,
                                                 fp.val, index, TRUE),
                                       1, nPoint + 1) :
                               fp \in {fingerprint(parent)}} : TRUE
        ELSE Raise("NotImplemented", 1, nPoint)

\* data and I are bound, so that each is computed once
derive_child(parent, index) ==
    CHOOSE out \in
        {IF data.err # "" THEN Raise(data.err, 0, data.nPoint)
         ELSE CHOOSE res \in
                  {child_from_hmac(parent, index, I, data.nPoint) :
                       I \in {hmac_sha512(parent.chain_code, data.val)}} : TRUE :
             data \in {hmac_data(parent, index)}} : TRUE

(***************************************************************************)
(* Python's str methods and int() on a string held as its characters.      *)
(***************************************************************************)
DigitChars == <<"0", "1", "2", "3", "4", "5", "6", "7", "8", "9">>

IsDigit(c) == \E i \in 1..10 : DigitChars[i] = c

DigitVal(c) == (CHOOSE i \in 1..10 : DigitChars[i] = c) - 1

\* s.strip(), for the blank
RECURSIVE LStrip(_)
LStrip(s) == IF s # <<>> /\ Head(s) = " " THEN LStrip(Tail(s)) ELSE s

RECURSIVE RStrip(_)
RStrip(s) == IF EndsWith(s, " ") THEN RStrip(DropLast(s, 1)) ELSE s

Strip(s) == RStrip(LStrip(s))

\* the digit strings int() takes: digits, single underscores between them
IntLiteral(t) ==
    /\ Len(t) > 0
    /\ IsDigit(t[1])
    /\ IsDigit(t[Len(t)])
    /\ \A i \in 1..Len(t) : IsDigit(t[i]) \/ t[i] = "_"
    /\ \A i \in 1..(Len(t) - 1) : ~(t[i] = "_" /\ t[i + 1] = "_")

RECURSIVE Magnitude(_, _)
Magnitude(t, acc) ==
    IF t = <<>> THEN acc
    ELSE CHOOSE out \in
             {Magnitude(rest, a) :
                  rest \in {Tail(t)},
                  a \in {IF Head(t) = "_" THEN acc
                         ELSE WMul10Add(acc, DigitVal(Head(t)))}} : TRUE

\* int(text): blanks stripped, an optional sign; ValueError otherwise
int(text) ==
    LET t == Strip(text)
        signed == Len(t) > 0 /\ t[1] \in {"+", "-"}
        body == IF signed THEN Tail(t) ELSE t
    IN  IF ~IntLiteral(body) THEN Error("ValueError")
        ELSE IF signed /\ t[1] = "-" THEN Value(WNeg(Magnitude(body, WZero)))
        ELSE Value(Magnitude(body, WZero))

\* s.split("/")
RECURSIVE SplitFrom(_, _)
SplitFrom(s, part) ==
    IF s = <<>> THEN <<part>>
    ELSE CHOOSE out \in
             {IF c = "/" THEN <<part>> \o SplitFrom(rest, <<>>)
              ELSE SplitFrom(rest, p) :
                  c \in {Head(s)}, rest \in {Tail(s)},
                  p \in {Append(part, Head(s))}} : TRUE

Split(s) == SplitFrom(s, <<>>)

\* str(n) of a small int, as an f-string formats it
RECURSIVE StrNat(_)
StrNat(n) ==
    IF n < 10 THEN <<DigitChars[n + 1]>>
    ELSE Append(StrNat(n \div 10), DigitChars[(n % 10) + 1])

Str(n) == IF n < 0 THEN <<"-">> \o StrNat(0 - n) ELSE StrNat(n)

(***************************************************************************)
(* bip32.py: derive_path.                                                  *)
(***************************************************************************)
starts_with_m_slash(path) == Len(path) >= 2 /\ path[1] = "m" /\ path[2] = "/"

\* path.startswith("m")
starts_with_m(path) == Len(path) >= 1 /\ path[1] = "m"

\* index = int(part[:-1]) + 0x80000000, or int(part)
part_index(part) ==
    LET marked == EndsWith(part, "'") \/ EndsWith(part, "h")
    IN  CHOOSE out \in
            {IF parsed.err # "" THEN Error("InvalidPath")
             ELSE IF marked THEN Value(WAdd(parsed.val, HARDENED))
             ELSE parsed :
                 parsed \in {IF marked THEN int(DropLast(part, 1)) ELSE int(part)}} :
            TRUE

\* key = derive_child(key, index); acc holds key and the calls made so far
turn(acc, index) ==
    CHOOSE out \in
        {Result(r.status, r.node, Append(acc.calls, index), acc.nHmac + r.nHmac,
                acc.nPoint + r.nPoint) :
             r \in {derive_child(acc.node, index)}} : TRUE

\* the for loop over the parts; idx, rest and nxt are bound, so that each is
\* computed once
RECURSIVE walk(_, _)
walk(acc, parts) ==
    IF parts = <<>> THEN acc
    ELSE CHOOSE out \in
             {IF idx.err # ""
              THEN Result(idx.err, NoKey, acc.calls, acc.nHmac, acc.nPoint)
              ELSE CHOOSE res \in
                       {IF nxt.status # "ok" THEN nxt ELSE walk(nxt, rest) :
                            nxt \in {turn(acc, idx.val)}} : TRUE :
                  idx \in {part_index(Head(parts))}, rest \in {Tail(parts)}} : TRUE

derive_path(master, path) ==
    IF ~starts_with_m(path) THEN Result("InvalidPath", NoKey, <<>>, 0, 0)
    ELSE IF path = <<"m">> THEN Result("ok", master, <<>>, 0, 0)
    ELSE walk(Result("ok", master, <<>>, 0, 0), Tail(Split(path)))

(***************************************************************************)
(* bip32.py at the level of objects.  heap holds the ExtendedKey objects   *)
(* constructed so far, in the order of their construction; an object is    *)
(* known by its position, and a reference to an object is that position.   *)
(* An operation gives the heap it leaves, the reference it returns (0 when *)
(* it returns no ExtendedKey) and "ok" or the exception it raises.         *)
(***************************************************************************)
Obj(heap, ret, status) == [heap |-> heap, ret |-> ret, status |-> status]

\* ExtendedKey(...): __init__ assigns the six fields of the new object
construct(heap, fields) == Obj(Append(heap, fields), Len(heap) + 1, "ok")

\* self.public_key, self.fingerprint, self.serialize(): they read self
read_object(heap, status) == Obj(heap, 0, status)

neuter_object_in_place(heap, self) ==
    CHOOSE out \in
        {IF r.status # "ok" THEN Obj(heap, 0, r.status)
         ELSE Obj([heap EXCEPT ![self] = r.node], self, "ok") :
             r \in {neuter(heap[self])}} : TRUE

neuter_object(heap, self) ==
    IF ~heap[self].is_private THEN Obj(heap, self, "ok")
    ELSE CHOOSE out \in
             {IF r.status # "ok" THEN Obj(heap, 0, r.status)
              ELSE construct(heap, r.node) :
                  r \in {neuter(heap[self])}} : TRUE

from_seed_object(heap, seed) ==
    CHOOSE out \in
        {IF r.status # "ok" THEN Obj(heap, 0, r.status)
         ELSE construct(heap, r.node) :
             r \in {from_seed(seed)}} : TRUE

derive_child_object(heap, parent, index) ==
    CHOOSE out \in
        {IF r.status # "ok" THEN Obj(heap, 0, r.status)
         ELSE construct(heap, r.node) :
             r \in {derive_child(heap[parent], index)}} : TRUE

\* the for loop of derive_path: key refers to the child derived last
RECURSIVE walk_object(_, _, _)
walk_object(heap, key, parts) ==
    IF parts = <<>> THEN Obj(heap, key, "ok")
    ELSE CHOOSE out \in
             {IF idx.err # "" THEN Obj(heap, 0, idx.err)
              ELSE CHOOSE res \in
                       {IF nxt.status # "ok" THEN nxt
                        ELSE walk_object(nxt.heap, nxt.ret, rest) :
                            nxt \in {derive_child_object(heap, key, idx.val)}} : TRUE :
                  idx \in {part_index(Head(parts))}, rest \in {Tail(parts)}} : TRUE

derive_path_object(heap, master, path) ==
    IF ~starts_with_m(path) THEN Obj(heap, 0, "InvalidPath")
    ELSE IF path = <<"m">> THEN Obj(heap, master, "ok")
    ELSE walk_object(heap, master, Tail(Split(path)))

(***************************************************************************)
(* bip44.py: the path builders.                                            *)
(***************************************************************************)
PURPOSE_BIP44 == 44

COIN_BTC == 0

COIN_ETH == 60

account_path(purpose, coin_type, account) ==
    <<"m", "/">> \o Str(purpose) \o <<"'", "/">> \o Str(coin_type)
        \o <<"'", "/">> \o Str(account) \o <<"'">>

get_path(purpose, coin_type, account, change, address_index) ==
    account_path(purpose, coin_type, account) \o <<"/">> \o Str(change)
        \o <<"/">> \o Str(address_index)

derive_account(master, coin_type, account, purpose) ==
    derive_path(master, account_path(purpose, coin_type, account))

derive_address(master, coin_type, account, change, address_index, purpose) ==
    derive_path(master, get_path(purpose, coin_type, account, change, address_index))

(***************************************************************************)
(* utils/base58.py.  A Python int is held as its big-endian bytes without  *)
(* leading zero bytes (<<>> is 0), so the arithmetic has no width limit.   *)
(***************************************************************************)
MAINNET_PRIVATE == <<4, 136, 173, 228>>

MAINNET_PUBLIC == <<4, 136, 178, 30>>

ALPHABET ==
    <<"1", "2", "3", "4", "5", "6", "7", "8", "9", "A", "B", "C", "D", "E", "F",
      "G", "H", "J", "K", "L", "M", "N", "P", "Q", "R", "S", "T", "U", "V", "W",
      "X", "Y", "Z", "a", "b", "c", "d", "e", "f", "g", "h", "i", "j", "k", "m",
      "n", "o", "p", "q", "r", "s", "t", "u", "v", "w", "x", "y", "z">>

BASE == Len(ALPHABET)

\* the number of leading elements of s equal to c
RECURSIVE LeadingRun(_, _, _)
LeadingRun(s, c, i) ==
    IF i > Len(s) \/ s[i] # c THEN i - 1 ELSE LeadingRun(s, c, i + 1)

leading_zeros_at_most_one(data) == Min(LeadingRun(data, 0, 1), 1)

leading_zeros(data) == LeadingRun(data, 0, 1)

leading_ones_none(s) == 0

leading_ones(s) == LeadingRun(s, "1", 1)

\* int.from_bytes(data, "big")
from_bytes(data) == Drop(data, LeadingRun(data, 0, 1))

\* divmod(num, BASE) by long division, from the byte at i on
RECURSIVE LongDiv(_, _, _, _)
LongDiv(num, i, rem, quot) ==
    IF i > Len(num) THEN [q |-> from_bytes(quot), r |-> rem]
    ELSE CHOOSE out \in
             {LongDiv(num, i + 1, v % BASE, Append(quot, v \div BASE)) :
                  v \in {rem * 256 + num[i]}} : TRUE

divmod(num) == LongDiv(num, 1, 0, <<>>)

\* the while loop and the reverse: the digits of num, most significant first
RECURSIVE to_base58(_, _)
to_base58(num, result) ==
    IF num = <<>> THEN result
    ELSE CHOOSE out \in
             {to_base58(d.q, <<ALPHABET[d.r + 1]>> \o r) :
                  d \in {divmod(num)}, r \in {result}} : TRUE

base58_encode(data) ==
    Repeat("1", leading_zeros(data)) \o to_base58(from_bytes(data), <<>>)

\* ALPHABET.index(c); -1 where Python raises ValueError
alphabet_index(c) ==
    IF \E i \in 1..BASE : ALPHABET[i] = c
    THEN (CHOOSE i \in 1..BASE : ALPHABET[i] = c) - 1
    ELSE 0 - 1

\* num * BASE + digit, from the least significant byte at i up
RECURSIVE MulAdd(_, _, _, _)
MulAdd(num, i, carry, acc) ==
    IF i = 0 THEN (IF carry = 0 THEN acc ELSE <<carry>> \o acc)
    ELSE CHOOSE out \in
             {MulAdd(num, i - 1, v \div 256, <<v % 256>> \o a) :
                  v \in {num[i] * BASE + carry}, a \in {acc}} : TRUE

RECURSIVE from_base58(_, _, _)
from_base58(s, i, num) ==
    IF i > Len(s) THEN Value(num)
    ELSE IF alphabet_index(s[i]) < 0 THEN Error("ValueError")
    ELSE CHOOSE out \in
             {from_base58(s, i + 1, n) :
                  n \in {MulAdd(num, Len(num), alphabet_index(s[i]), <<>>)}} : TRUE

base58_decode(s) ==
    CHOOSE out \in
        {IF num.err # "" THEN num
         ELSE Value(Repeat(0, leading_ones(s)) \o num.val) :
             num \in {from_base58(s, 1, <<>>)}} : TRUE

_checksum(payload) == Take(sha256(sha256(payload)), 4)

base58check_encode(version, payload) ==
    base58_encode(version \o payload \o _checksum(version \o payload))

\* compares the checksum byte by byte, over the bytes both have
base58check_decode_zip(s) ==
    CHOOSE out \in
        {IF data.err # "" THEN data
         ELSE IF \E i \in 1..Len(TakeLast(data.val, 4)) :
                     _checksum(DropLast(data.val, 4))[i] # TakeLast(data.val, 4)[i]
         THEN Error("ChecksumMismatch")
         ELSE Value(<<Take(DropLast(data.val, 4), 1), Drop(DropLast(data.val, 4), 1)>>) :
             data \in {base58_decode(s)}} : TRUE

\* returns <<version, payload>>
base58check_decode(s) ==
    CHOOSE out \in
        {IF data.err # "" THEN data
         ELSE IF _checksum(DropLast(data.val, 4)) # TakeLast(data.val, 4)
         THEN Error("ChecksumMismatch")
         ELSE Value(<<Take(DropLast(data.val, 4), 1), Drop(DropLast(data.val, 4), 1)>>) :
             data \in {base58_decode(s)}} : TRUE

(***************************************************************************)
(* bip32.py, ExtendedKey.serialize.                                        *)
(***************************************************************************)
\* bytes([self.depth])
depth_byte(depth) ==
    IF depth < 0 \/ depth > 255 THEN Error("ValueError") ELSE Value(<<depth>>)

version_swapped(self) == IF self.is_private THEN MAINNET_PUBLIC ELSE MAINNET_PRIVATE

version(self) == IF self.is_private THEN MAINNET_PRIVATE ELSE MAINNET_PUBLIC

key_field(self) == IF self.is_private THEN <<0>> \o self.key ELSE self.key

serialize(self) ==
    CHOOSE out \in
        {IF d.err # "" THEN d
         ELSE IF i.err # "" THEN i
         ELSE CHOOSE res \in
                  {Value(base58_encode(payload \o Take(sha256(sha256(payload)), 4))) :
                       payload \in {version(self) \o d.val \o self.parent_fingerprint
                                        \o i.val \o self.chain_code \o key_field(self)}}
                  : TRUE :
             d \in {depth_byte(self.depth)}, i \in {_ser32(self.child_index)}} : TRUE

(***************************************************************************)
(* wordlist/__init__.py and bip39.py.  Entropy bytes, bit strings, word    *)
(* indices and word counts keep their real values.  A mnemonic is the      *)
(* sequence of its words and of the whitespace between them; a word is one *)
(* token (a number), Word(i) the i-th word of the English table.           *)
(***************************************************************************)
TableSize == 2048

WordBits == 11

Word(i) == 5 * i + 3

\* the files of the wordlist directory, by language; each read is a load
WordlistFile(language) ==
    IF language = "english" THEN SubSeq([i \in 1..TableSize |-> Word(i - 1)], 1, TableSize)
    ELSE <<>>

WordlistFiles == {"english"}

\* the value returned and the languages whose file was read on the way
Loaded(err, val, reads) == [err |-> err, val |-> val, reads |-> reads]

load_wordlist(language) ==
    IF language \notin WordlistFiles THEN Loaded("FileNotFoundError", <<>>, <<>>)
    ELSE IF Len(WordlistFile(language)) # TableSize
    THEN Loaded("ValueError", <<>>, <<language>>)
    ELSE Loaded("", WordlistFile(language), <<language>>)

\* the bits of a byte string, 8 per byte, most significant first
BitsOfBytes(data) ==
    SubSeq([i \in 1..(8 * Len(data)) |->
                (data[((i - 1) \div 8) + 1] \div (2 ^ (7 - ((i - 1) % 8)))) % 2],
           1, 8 * Len(data))

\* bin(num)[2:] of a Python int held as its bytes
bin(num) ==
    CHOOSE out \in
        {IF LeadingRun(raw, 0, 1) = Len(raw) THEN <<0>>
         ELSE Drop(raw, LeadingRun(raw, 0, 1)) :
             raw \in {BitsOfBytes(num)}} : TRUE

zfill(bits, width) == Repeat(0, Max(width - Len(bits), 0)) \o bits

\* bin(idx)[2:].zfill(width) of a small int
bin_zfill(idx, width) ==
    SubSeq([i \in 1..width |-> (idx \div (2 ^ (width - i))) % 2], 1, width)

\* int(bits, 2) of at most 11 bits
int2(bits) == FromDigits(bits, 2, 0)

\* int(bits, 2).to_bytes(n, "big")
to_bytes(bits, n) ==
    CHOOSE out \in
        {IF Len(digits) > 8 * n THEN Error("OverflowError")
         ELSE Value(SubSeq([i \in 1..n |->
                                FromDigits(SubSeq(zfill(digits, 8 * n), 8 * i - 7, 8 * i), 2, 0)],
                           1, n)) :
             digits \in {Drop(bits, LeadingRun(bits, 0, 1))}} : TRUE

_checksum_bits_tail(entropy) ==
    TakeLast(zfill(bin(from_bytes(sha256(entropy))), 8 * Len(sha256(entropy))),
             (Len(entropy) * 8) \div 32)

_checksum_bits(entropy) ==
    Take(zfill(bin(from_bytes(sha256(entropy))), 8 * Len(sha256(entropy))),
         (Len(entropy) * 8) \div 32)

entropy_bits_no_zfill(entropy) == bin(from_bytes(entropy))

entropy_bits(entropy) == zfill(bin(from_bytes(entropy)), Len(entropy) * 8)

SP == 0 - 1

NL == 0 - 2

Whitespace == {SP, NL}

\* " ".join(words)
RECURSIVE join(_)
join(words) ==
    IF Len(words) <= 1 THEN words
    ELSE <<Head(words), SP>> \o join(Tail(words))

IsWord(c) == c \notin Whitespace

\* mnemonic.strip().split()
split_words(mnemonic) == SelectSeq(mnemonic, IsWord)

\* lines 56-59: one word per 11 bits
words_of_bits(all_bits, wordlist) ==
    SubSeq([i \in 1..((Len(all_bits) + WordBits - 1) \div WordBits) |->
                wordlist[int2(SubSeq(all_bits, WordBits * (i - 1) + 1,
                                     Min(WordBits * i, Len(all_bits)))) + 1]],
           1, (Len(all_bits) + WordBits - 1) \div WordBits)

entropy_to_mnemonic_length_in_range(entropy, language) ==
    IF Len(entropy) < 16 \/ Len(entropy) > 32
    THEN Loaded("InvalidEntropyLength", <<>>, <<>>)
    ELSE CHOOSE out \in
             {IF wl.err # "" THEN wl
              ELSE Loaded("", join(words_of_bits(entropy_bits(entropy)
                                                     \o _checksum_bits(entropy), wl.val)),
                          wl.reads) :
                  wl \in {load_wordlist(language)}} : TRUE

entropy_to_mnemonic(entropy, language) ==
    IF Len(entropy) \notin {16, 20, 24, 28, 32}
    THEN Loaded("InvalidEntropyLength", <<>>, <<>>)
    ELSE CHOOSE out \in
             {IF wl.err # "" THEN wl
              ELSE Loaded("", join(words_of_bits(entropy_bits(entropy)
                                                     \o _checksum_bits(entropy), wl.val)),
                          wl.reads) :
                  wl \in {load_wordlist(language)}} : TRUE

\* wordlist.index(w); -1 where Python raises ValueError
wordlist_index(wordlist, w) ==
    CHOOSE out \in
        {IF hits = {} THEN 0 - 1
         ELSE (CHOOSE i \in hits : \A j \in hits : i <= j) - 1 :
             hits \in {{i \in 1..Len(wordlist) : wordlist[i] = w}}} : TRUE

RECURSIVE concat_bits(_)
concat_bits(indices) ==
    IF indices = <<>> THEN <<>>
    ELSE bin_zfill(Head(indices), WordBits) \o concat_bits(Tail(indices))

\* lines 95-108, once every word has an index
checksum_agrees(indices) ==
    CHOOSE out \in
        {CHOOSE res \in
             {IF entropy.err # "" THEN entropy
              ELSE Value(TakeLast(bits, cs_len) = _checksum_bits(entropy.val)) :
                  entropy \in {to_bytes(DropLast(bits, cs_len),
                                        (Len(bits) - cs_len) \div 8)}} : TRUE :
             bits \in {concat_bits(indices)}, cs_len \in {Len(indices) \div 3}} : TRUE

validate_mnemonic(mnemonic, language) ==
    CHOOSE out \in
        {IF wl.err # "" THEN wl
         ELSE IF Len(words) \notin {12, 15, 18, 21, 24}
         THEN Loaded("", FALSE, wl.reads)
         ELSE CHOOSE res \in
                  {IF \E i \in 1..Len(indices) : indices[i] < 0
                   THEN Loaded("", FALSE, wl.reads)
                   ELSE Loaded(checksum_agrees(indices).err,
                               checksum_agrees(indices).val, wl.reads) :
                       indices \in {SubSeq([i \in 1..Len(words) |->
                                                wordlist_index(wl.val, words[i])],
                                           1, Len(words))}} : TRUE :
             wl \in {load_wordlist(language)}, words \in {split_words(mnemonic)}} : TRUE

(***************************************************************************)
(* eip2098.py.  r, s and yParityAndS are "32-byte" strings (KeyLen digits) *)
(* and bit 255 is the top bit of such a string.                            *)
(***************************************************************************)
\* 1 << 255
TopBit == (KeyBase ^ KeyLen) \div 2

\* (v << 255) | s_int
OrTopBit(v, s_int) ==
    IF v = 1 /\ s_int % (2 * TopBit) < TopBit THEN s_int + TopBit ELSE s_int

normalize_v(v) == IF v >= 27 THEN v - 27 ELSE v

compact_signature_any_s(r, s, v) ==
    IF Len(r) # KeyLen \/ Len(s) # KeyLen THEN Error("InvalidLength")
    ELSE IF normalize_v(v) \notin {0, 1} THEN Error("InvalidV")
    ELSE Value(<<r, _ser256(OrTopBit(normalize_v(v), _parse256(s)))>>)

\* returns <<r, yParityAndS>>
compact_signature(r, s, v) ==
    IF Len(r) # KeyLen \/ Len(s) # KeyLen THEN Error("InvalidLength")
    ELSE IF normalize_v(v) \notin {0, 1} THEN Error("InvalidV")
    ELSE IF _parse256(s) > N \div 2 THEN Error("HighS")
    ELSE Value(<<r, _ser256(OrTopBit(normalize_v(v), _parse256(s)))>>)

\* returns <<r, s, v>>
expand_signature(r, yParityAndS) ==
    IF Len(r) # KeyLen \/ Len(yParityAndS) # KeyLen THEN Error("InvalidLength")
    ELSE Value(<<r, _ser256(_parse256(yParityAndS) % TopBit),
                 27 + (_parse256(yParityAndS) \div TopBit)>>)

(***************************************************************************)
(* The inputs the operations are called with.                              *)
(***************************************************************************)
\* <<b, n>>: the seed of n bytes b.  Lengths below, at and above the limits;
\* of the seeds of legal length, <<2, 63>> gives IL = 0, <<0, 61>> IL = N,
\* <<2, 17>> IL > N and <<1, 28>> IL = N - 1
SeedSamples ==
    {<<0, 0>>, <<0, 5>>, <<0, 15>>, <<0, 16>>, <<2, 17>>, <<1, 28>>, <<0, 61>>,
     <<2, 63>>, <<0, 64>>, <<0, 65>>}

Seeds == {Repeat(x[1], x[2]) : x \in SeedSamples}

\* 0, 2^31 - 1, 2^31, 2^32 - 1, 2^32, -1
IndexSamples ==
    {WOf(0), Wide(32767, 65535), HARDENED, Wide(65535, 65535), Wide(65536, 0),
     WOf(0 - 1)}

Segments == {<<"0">>, <<"0", "'">>, <<"1", "h">>, <<"x">>}

RECURSIVE PathsOf(_)
PathsOf(n) ==
    IF n = 0 THEN {<<"m">>}
    ELSE {p \o <<"/">> \o seg : p \in PathsOf(n - 1), seg \in Segments}

OddPaths ==
    {<<>>,
     <<"x">>,
     <<"M", "/", "0">>,
     <<"m", "x", "/", "0">>,
     <<"m", "x">>,
     <<"m", "/">>,
     <<"m", "/", "-", "1">>,
     <<"m", "/", "-", "1", "'">>,
     <<"m", "/", "+", "1">>,
     <<"m", "/", " ", "1">>,
     <<"m", "/", "1", "_", "0">>,
     <<"m", "/", "0", "0">>,
     <<"m", "/", "2", "1", "4", "7", "4", "8", "3", "6", "4", "7">>,
     <<"m", "/", "2", "1", "4", "7", "4", "8", "3", "6", "4", "8">>,
     <<"m", "/", "2", "1", "4", "7", "4", "8", "3", "6", "4", "7", "'">>,
     <<"m", "/", "2", "1", "4", "7", "4", "8", "3", "6", "4", "8", "'">>,
     <<"m", "/", "4", "2", "9", "4", "9", "6", "7", "2", "9", "6">>,
     <<"m", "/", "0", "x", "1">>,
     <<"m", "/", "'">>}

Paths == UNION {PathsOf(n) : n \in 0..MaxSegs} \cup OddPaths

(***************************************************************************)
(* The state: cur is the key the caller holds, last the call it has just    *)
(* made, with its arguments and its outcome, until it goes on (Continue).  *)
(***************************************************************************)
Call(op, arg, seed, index, path, r) ==
    [op |-> op, arg |-> arg, seed |-> seed, index |-> index, path |-> path,
     status |-> r.status, node |-> r.node, calls |-> r.calls,
     nHmac |-> r.nHmac, nPoint |-> r.nPoint, out |-> <<>>]

NoCall == Call("none", NoKey, <<>>, WZero, <<>>, Raise("none", 0, 0))

B58Idle ==
    [phase |-> "idle", version |-> <<>>, payload |-> <<>>, encoded |-> <<>>,
     status |-> "", out_version |-> <<>>, out_payload |-> <<>>,
     data |-> <<>>, text |-> <<>>, back |-> <<>>]

\* the mnemonic layer: the call last made, its outcome, and how often each
\* language's wordlist file has been read since the process started
MnIdle ==
    [op |-> "none", entropy |-> <<>>, phrase |-> <<>>, language |-> "",
     status |-> "", out |-> <<>>, valid |-> FALSE,
     loads |-> [l \in {"english", "klingon"} |-> 0], calls |-> 0]

NoObjs ==
    [heap |-> <<>>, op |-> "none", self |-> 0, path |-> <<>>, ret |-> 0,
     status |-> ""]

\* the curve engine: the call last made and what it returned
EcIdle ==
    [op |-> "none", k |-> 0, p |-> <<>>, q |-> <<>>, out |-> <<>>, status |-> ""]

SigIdle ==
    [op |-> "none", r |-> <<>>, s |-> <<>>, v |-> 0, status |-> "",
     out_r |-> <<>>, yParityAndS |-> <<>>, exp_r |-> <<>>, exp_s |-> <<>>, exp_v |-> 0]

Init ==
    /\ cur = NoKey
    /\ last = NoCall
    /\ b58 = B58Idle
    /\ mn = MnIdle
    /\ sig = SigIdle
    /\ objs = NoObjs
    /\ ec = EcIdle

Keep(r) == IF r.status = "ok" THEN r.node ELSE cur

FromSeed ==
    /\ last = NoCall
    /\ \E seed \in Seeds :
        \E r \in {from_seed(seed)} :
            /\ cur' = Keep(r)
            /\ last' = Call("from_seed", NoKey, seed, WZero, <<>>, r)
            /\ UNCHANGED <<b58, mn, sig, objs, ec>>

DeriveChild ==
    /\ last = NoCall
    /\ cur # NoKey
    /\ cur.depth < MaxDepth
    /\ \E index \in IndexSamples :
        \E r \in {derive_child(cur, index)} :
            /\ cur' = Keep(r)
            /\ last' = Call("derive_child", cur, <<>>, index, <<>>, r)
            /\ UNCHANGED <<b58, mn, sig, objs, ec>>

DerivePath ==
    /\ last = NoCall
    /\ cur # NoKey
    /\ \E path \in Paths :
        /\ path = <<"m">> \/ cur.depth + Len(Split(path)) - 1 <= MaxDepth
        /\ \E r \in {derive_path(cur, path)} :
               /\ cur' = Keep(r)
               /\ last' = Call("derive_path", cur, <<>>, WZero, path, r)
               /\ UNCHANGED <<b58, mn, sig, objs, ec>>

Neuter ==
    /\ last = NoCall
    /\ cur # NoKey
    /\ \E r \in {neuter(cur)} :
           /\ cur' = Keep(r)
           /\ last' = Call("neuter", cur, <<>>, WZero, <<>>, r)
           /\ UNCHANGED <<b58, mn, sig, objs, ec>>

\* bip44.derive_account(master, coin_type, account), on a master key
DeriveAccount ==
    /\ last = NoCall
    /\ cur # NoKey
    /\ cur.depth = 0
    /\ \E coin_type \in {COIN_BTC, COIN_ETH}, account \in 0..1 :
        \E r \in {derive_account(cur, coin_type, account, PURPOSE_BIP44)} :
            /\ cur' = Keep(r)
            /\ last' = Call("derive_account", cur, <<>>, WZero,
                            account_path(PURPOSE_BIP44, coin_type, account), r)
            /\ UNCHANGED <<b58, mn, sig, objs, ec>>

\* bip44.derive_address(master, coin_type, account, change), on a master key
DeriveAddress ==
    /\ last = NoCall
    /\ cur # NoKey
    /\ cur.depth = 0
    /\ \E coin_type \in {COIN_BTC, COIN_ETH}, account \in 0..1, change \in 0..1 :
        \E r \in {derive_address(cur, coin_type, account, change, 0, PURPOSE_BIP44)} :
            /\ cur' = Keep(r)
            /\ last' = Call("derive_address", cur, <<>>, WZero,
                            get_path(PURPOSE_BIP44, coin_type, account, change, 0), r)
            /\ UNCHANGED <<b58, mn, sig, objs, ec>>

\* k.serialize(), on the key the caller holds
Serialize ==
    /\ last = NoCall
    /\ cur # NoKey
    /\ \E r \in {serialize(cur)} :
           last' = [Call("serialize", cur, <<>>, WZero, <<>>,
                         Raise(IF r.err = "" THEN "ok" ELSE r.err, 0, 0))
                        EXCEPT !.out = r.val]
    /\ UNCHANGED <<cur, b58, mn, sig, objs, ec>>

\* the caller has looked at the outcome and goes on with the key it holds
Continue ==
    /\ last # NoCall
    /\ last' = NoCall
    /\ UNCHANGED <<cur, b58, mn, sig, objs, ec>>

Next ==
    \/ FromSeed
    \/ DeriveChild
    \/ DerivePath
    \/ Neuter
    \/ DeriveAccount
    \/ DeriveAddress
    \/ Serialize
    \/ Continue

Spec == Init /\ [][Next]_vars

(***************************************************************************)
(* The derivation API on objects: the caller constructs a root and applies *)
(* any operation to any object constructed so far.                         *)
(***************************************************************************)
HeapSeeds == {Repeat(0, 16), Repeat(1, 28), Repeat(2, 63), Repeat(0, 15)}

HeapIndices == {WOf(0), HARDENED, WOf(0 - 1)}

HeapPaths ==
    {<<"m">>, <<"m", "/", "0">>, <<"m", "/", "0", "'", "/", "1">>,
     <<"m", "/", "0", "/", "x">>, <<"x">>}

\* the outcome r of operation op on object self
Did(op, self, path, r) ==
    [heap |-> r.heap, op |-> op, self |-> self, path |-> path, ret |-> r.ret,
     status |-> r.status]

\* the caller constructs one root and works with it and its descendants
FromSeedObject ==
    /\ objs.heap = <<>>
    /\ \E seed \in HeapSeeds :
        \E r \in {from_seed_object(objs.heap, seed)} :
            objs' = Did("from_seed", 0, <<>>, r)
    /\ UNCHANGED <<cur, last, b58, mn, sig, ec>>

DeriveChildObject ==
    /\ Len(objs.heap) < MaxObjs
    /\ \E parent \in 1..Len(objs.heap), index \in HeapIndices :
        \E r \in {derive_child_object(objs.heap, parent, index)} :
            objs' = Did("derive_child", parent, <<>>, r)
    /\ UNCHANGED <<cur, last, b58, mn, sig, ec>>

DerivePathObject ==
    /\ \E master \in 1..Len(objs.heap), path \in HeapPaths :
        /\ Len(objs.heap) + Len(Split(path)) - 1 <= MaxObjs
        /\ \E r \in {derive_path_object(objs.heap, master, path)} :
               objs' = Did("derive_path", master, path, r)
    /\ UNCHANGED <<cur, last, b58, mn, sig, ec>>

NeuterObject ==
    /\ \E self \in 1..Len(objs.heap) :
        /\ Len(objs.heap) < MaxObjs \/ ~objs.heap[self].is_private
        /\ \E r \in {neuter_object(objs.heap, self)} :
               objs' = Did("neuter", self, <<>>, r)
    /\ UNCHANGED <<cur, last, b58, mn, sig, ec>>

SerializeObject ==
    /\ \E self \in 1..Len(objs.heap) :
        \E r \in {serialize(objs.heap[self])} :
            objs' = Did("serialize", self, <<>>,
                        read_object(objs.heap, IF r.err = "" THEN "ok" ELSE r.err))
    /\ UNCHANGED <<cur, last, b58, mn, sig, ec>>

PublicKeyObject ==
    /\ \E self \in 1..Len(objs.heap) :
        \E r \in {public_key(objs.heap[self])} :
            objs' = Did("public_key", self, <<>>,
                        read_object(objs.heap, IF r.err = "" THEN "ok" ELSE r.err))
    /\ UNCHANGED <<cur, last, b58, mn, sig, ec>>

FingerprintObject ==
    /\ \E self \in 1..Len(objs.heap) :
        \E r \in {fingerprint(objs.heap[self])} :
            objs' = Did("fingerprint", self, <<>>,
                        read_object(objs.heap, IF r.err = "" THEN "ok" ELSE r.err))
    /\ UNCHANGED <<cur, last, b58, mn, sig, ec>>

NextHeap ==
    \/ FromSeedObject
    \/ DeriveChildObject
    \/ DerivePathObject
    \/ NeuterObject
    \/ SerializeObject
    \/ PublicKeyObject
    \/ FingerprintObject

SpecHeap == Init /\ [][NextHeap]_vars

(***************************************************************************)
(* The curve engine of _point, called with every scalar up to MaxScalar    *)
(* (twice the group order and beyond) and with points of the curve.        *)
(***************************************************************************)
OnCurve(pt) == (pt[2] * pt[2]) % P = (pt[1] * pt[1] * pt[1] + 7) % P

\* the affine points with a small x coordinate, G among them
SamplePoints == {pt \in (0..9) \X (0..(P - 1)) : OnCurve(pt)}

\* the points that are multiplied: G, -G, another point and its negative
Multiplicands == {pt \in SamplePoints : pt[1] <= 4}

CurvePoints == {pt \in (0..(P - 1)) \X (0..(P - 1)) : OnCurve(pt)}

\* -pt
Negated(pt) == <<pt[1], (P - pt[2]) % P>>

EcCall(op, k, p, q, out, status) ==
    [op |-> op, k |-> k, p |-> p, q |-> q, out |-> out, status |-> status]

PointAdd ==
    /\ ec.op = "none"
    /\ \E p1 \in CurvePoints \cup {Infinity} :
        \E p2 \in SamplePoints \cup {Infinity} \cup
                      (IF p1 = Infinity THEN {} ELSE {p1, Negated(p1)}) :
            \E r \in {point_add(p1, p2)} :
                ec' = EcCall("point_add", 0, p1, p2, r, "ok")
    /\ UNCHANGED <<cur, last, b58, mn, sig, objs>>

ScalarMultiply ==
    /\ ec.op = "none"
    /\ \E k \in 0..MaxScalar, point \in Multiplicands \cup {Infinity} :
        \E r \in {scalar_multiply(k, point)} :
            ec' = EcCall("scalar_multiply", k, point, <<>>, r, "ok")
    /\ UNCHANGED <<cur, last, b58, mn, sig, objs>>

Point ==
    /\ ec.op = "none"
    /\ \E k \in 0..MaxScalar :
        \E r \in {_point(k)} :
            ec' = EcCall("_point", k, <<GX, GY>>, <<>>, r.val,
                         IF r.err = "" THEN "ok" ELSE r.err)
    /\ UNCHANGED <<cur, last, b58, mn, sig, objs>>

NextCurve ==
    \/ PointAdd
    \/ ScalarMultiply
    \/ Point

SpecCurve == Init /\ [][NextCurve]_vars

(***************************************************************************)
(* The Base58Check layer, applied to every version and payload of the      *)
(* bounded sets: encode, then decode what was encoded.                     *)
(***************************************************************************)
Versions ==
    {<<>>, <<0>>, <<5>>, <<128>>, <<0, 0>>, MAINNET_PRIVATE, MAINNET_PUBLIC}

PayloadBytes == {0, 1, 255}

Payloads == UNION {[1..n -> PayloadBytes] : n \in 0..MaxPayload}

InitB58 ==
    /\ cur = NoKey
    /\ last = NoCall
    /\ \E v \in Versions, p \in Payloads :
           b58 = [B58Idle EXCEPT !.phase = "input", !.version = v, !.payload = p]
    /\ mn = MnIdle
    /\ sig = SigIdle
    /\ objs = NoObjs
    /\ ec = EcIdle

Base58CheckEncode ==
    /\ b58.phase = "input"
    /\ \E s \in {base58check_encode(b58.version, b58.payload)} :
           b58' = [b58 EXCEPT !.phase = "encoded", !.encoded = s]
    /\ UNCHANGED <<cur, last, mn, sig, objs, ec>>

\* what reaches the decoder when the string was damaged on the way: a
\* character replaced, the string cut short, a character added
Corruptions(s) ==
    {[s EXCEPT ![i] = c] : i \in {1, (Len(s) + 1) \div 2, Len(s)}, c \in {"1", "2", "z"}}
        \cup {Take(s, n) : n \in 0..4}
        \cup {s \o <<"1">>, <<"1">> \o s, <<"z">> \o s, Tail(s)}

Corrupt ==
    /\ b58.phase = "encoded"
    /\ \E s \in Corruptions(b58.encoded) :
           /\ s # b58.encoded
           /\ b58' = [b58 EXCEPT !.phase = "corrupted", !.encoded = s]
    /\ UNCHANGED <<cur, last, mn, sig, objs, ec>>

\* decoding what was encoded ("decoded") or what was damaged ("checked")
Base58CheckDecode ==
    /\ b58.phase \in {"encoded", "corrupted"}
    /\ \E r \in {base58check_decode(b58.encoded)} :
           b58' = [b58 EXCEPT
                       !.phase = IF b58.phase = "encoded" THEN "decoded" ELSE "checked",
                       !.status = IF r.err = "" THEN "ok" ELSE r.err,
                       !.out_version = IF r.err = "" THEN r.val[1] ELSE <<>>,
                       !.out_payload = IF r.err = "" THEN r.val[2] ELSE <<>>]
    /\ UNCHANGED <<cur, last, mn, sig, objs, ec>>

\* the byte strings base58_encode is given: the payload alone, and with the
\* version before or after it
RawData(v, p) == {p, v \o p, p \o v}

Base58Encode ==
    /\ b58.phase = "input"
    /\ \E d \in RawData(b58.version, b58.payload) :
        \E s \in {base58_encode(d)} :
            b58' = [b58 EXCEPT !.phase = "raw_encoded", !.data = d, !.text = s]
    /\ UNCHANGED <<cur, last, mn, sig, objs, ec>>

Base58Decode ==
    /\ b58.phase = "raw_encoded"
    /\ \E r \in {base58_decode(b58.text)} :
           b58' = [b58 EXCEPT !.phase = "raw_decoded",
                              !.status = IF r.err = "" THEN "ok" ELSE r.err,
                              !.back = r.val]
    /\ UNCHANGED <<cur, last, mn, sig, objs, ec>>

NextB58 ==
    \/ Base58CheckEncode
    \/ Corrupt
    \/ Base58CheckDecode
    \/ Base58Encode
    \/ Base58Decode

SpecB58 == InitB58 /\ [][NextB58]_vars

(***************************************************************************)
(* A long chain: from each root the caller derives child after child,      *)
(* taking at each level the first index whose derivation succeeds (BIP-32: *)
(* on an invalid child, proceed with the next index), and may neuter the   *)
(* key it holds.                                                           *)
(***************************************************************************)
ChainIndices ==
    <<WOf(0), WOf(1), WOf(2), WOf(3), HARDENED, WAdd(HARDENED, WOf(1)),
      WAdd(HARDENED, WOf(2)), WAdd(HARDENED, WOf(3))>>

\* the first index of ChainIndices, from position i on, that gives a child
RECURSIVE FirstChild(_, _)
FirstChild(parent, i) ==
    IF i > Len(ChainIndices) THEN <<>>
    ELSE CHOOSE out \in
             {IF r.status = "ok" THEN <<[index |-> ChainIndices[i], r |-> r]>>
              ELSE FirstChild(parent, i + 1) :
                  r \in {derive_child(parent, ChainIndices[i])}} : TRUE

InitDeep ==
    /\ \E seed \in Seeds :
        \E r \in {from_seed(seed)} :
            /\ r.status = "ok"
            /\ cur = r.node
            /\ last = Call("from_seed", NoKey, seed, WZero, <<>>, r)
    /\ b58 = B58Idle
    /\ mn = MnIdle
    /\ sig = SigIdle
    /\ objs = NoObjs
    /\ ec = EcIdle

DescendChild ==
    /\ last = NoCall
    /\ cur.depth < MaxChain
    /\ \E c \in {FirstChild(cur, 1)} :
           /\ c # <<>>
           /\ cur' = c[1].r.node
           /\ last' = Call("derive_child", cur, <<>>, c[1].index, <<>>, c[1].r)
    /\ UNCHANGED <<b58, mn, sig, objs, ec>>

NextDeep ==
    \/ DescendChild
    \/ Neuter
    \/ Serialize
    \/ Continue

SpecDeep == InitDeep /\ [][NextDeep]_vars

(***************************************************************************)
(* The mnemonic layer: a process that turns entropy into a mnemonic and    *)
(* validates phrases, the mnemonic it has just made and variants of it.    *)
(***************************************************************************)
\* <<b, n>>: the entropy of n bytes b (the checksum bits of <<28, 16>> are
\* all zero); and two with leading zero bytes
EntropySamples ==
    {<<0, 16>>, <<28, 16>>, <<127, 16>>, <<255, 20>>, <<128, 24>>, <<1, 28>>, <<255, 32>>,
     <<0, 32>>, <<0, 0>>, <<0, 15>>, <<0, 17>>, <<0, 33>>}

Entropies ==
    {Repeat(x[1], x[2]) : x \in EntropySamples}
        \cup {<<0>> \o Repeat(255, 15), Repeat(0, 15) \o <<1>>}

Languages == {"english", "klingon"}

\* the table index of a word with its lowest bit flipped
FlipWord(w) ==
    IF ((w - 3) \div 5) % 2 = 0 THEN w + 5 ELSE w - 5

\* what a caller may hand to validate_mnemonic, given a mnemonic
PhrasesOf(m) ==
    IF m = <<>> THEN {<<>>, <<Word(0)>>}
    ELSE {m,
          <<SP, NL>> \o m \o <<SP>>,
          DropLast(m, 2),
          m \o <<SP, Word(0)>>,
          Take(m, 23),
          [m EXCEPT ![1] = 0],
          [m EXCEPT ![1] = @ + 1],
          [m EXCEPT ![Len(m)] = FlipWord(@)]}

Count(seq, x) == Cardinality({i \in 1..Len(seq) : seq[i] = x})

AfterCall(r) ==
    [l \in DOMAIN mn.loads |-> mn.loads[l] + Count(r.reads, l)]

EntropyToMnemonic ==
    /\ mn.calls < MaxCalls
    /\ \E e \in Entropies, language \in Languages :
        \E r \in {entropy_to_mnemonic(e, language)} :
            mn' = [op |-> "entropy_to_mnemonic", entropy |-> e, phrase |-> <<>>,
                   language |-> language,
                   status |-> IF r.err = "" THEN "ok" ELSE r.err,
                   out |-> IF r.err = "" THEN r.val ELSE <<>>,
                   valid |-> FALSE, loads |-> AfterCall(r), calls |-> mn.calls + 1]
    /\ UNCHANGED <<cur, last, b58, sig, objs, ec>>

ValidateMnemonic ==
    /\ mn.calls < MaxCalls
    /\ mn.op # "none"
    /\ \E phrase \in PhrasesOf(mn.out), language \in Languages :
        \E r \in {validate_mnemonic(phrase, language)} :
            mn' = [mn EXCEPT
                       !.op = "validate_mnemonic", !.phrase = phrase,
                       !.language = language,
                       !.status = IF r.err = "" THEN "ok" ELSE r.err,
                       !.valid = IF r.err = "" THEN r.val ELSE FALSE,
                       !.loads = AfterCall(r), !.calls = mn.calls + 1]
    /\ UNCHANGED <<cur, last, b58, sig, objs, ec>>

NextB39 ==
    \/ EntropyToMnemonic
    \/ ValidateMnemonic

SpecB39 == Init /\ [][NextB39]_vars


(***************************************************************************)
(* The compact signature layer: a signature is compacted, and what was     *)
(* compacted is expanded again.                                            *)
(***************************************************************************)
RSamples == {<<0, 0>>, <<6, 8>>, <<15, 15>>, <<>>, <<1>>, <<1, 2, 3>>}

SSamples == [1..KeyLen -> 0..(KeyBase - 1)] \cup {<<>>, <<1>>, <<0, 0, 1>>}

VSamples == {0 - 1, 0, 1, 2, 26, 27, 28, 29, 54, 55}

CompactSignature ==
    /\ sig.op = "none"
    /\ \E r \in RSamples, s \in SSamples, v \in VSamples :
        \E c \in {compact_signature(r, s, v)} :
            sig' = [SigIdle EXCEPT
                        !.op = "compact_signature", !.r = r, !.s = s, !.v = v,
                        !.status = IF c.err = "" THEN "ok" ELSE c.err,
                        !.out_r = IF c.err = "" THEN c.val[1] ELSE <<>>,
                        !.yParityAndS = IF c.err = "" THEN c.val[2] ELSE <<>>]
    /\ UNCHANGED <<cur, last, b58, mn, objs, ec>>

ExpandSignature ==
    /\ sig.op = "compact_signature"
    /\ sig.status = "ok"
    /\ \E e \in {expand_signature(sig.out_r, sig.yParityAndS)} :
           sig' = [sig EXCEPT
                       !.op = "expand_signature",
                       !.status = IF e.err = "" THEN "ok" ELSE e.err,
                       !.exp_r = IF e.err = "" THEN e.val[1] ELSE <<>>,
                       !.exp_s = IF e.err = "" THEN e.val[2] ELSE <<>>,
                       !.exp_v = IF e.err = "" THEN e.val[3] ELSE 0]
    /\ UNCHANGED <<cur, last, b58, mn, objs, ec>>

NextSig ==
    \/ CompactSignature
    \/ ExpandSignature

SpecSig == Init /\ [][NextSig]_vars

(***************************************************************************)
(* What the claims speak of.                                               *)
(***************************************************************************)
\* the path grammar "m" ("/" index ["'" | "h"])*, index an unsigned decimal
Marked(seg) == EndsWith(seg, "'") \/ EndsWith(seg, "h")

IndexText(seg) == IF Marked(seg) THEN DropLast(seg, 1) ELSE seg

Decimal(t) == Len(t) > 0 /\ \A i \in 1..Len(t) : IsDigit(t[i])

SegmentsOf(path) == Tail(Split(path))

NumSegments(path) == Cardinality({i \in 1..Len(path) : path[i] = "/"})

\* the first component is exactly "m" and every segment is a decimal index
WellFormed(path) ==
    /\ Split(path)[1] = <<"m">>
    /\ \A i \in 1..Len(SegmentsOf(path)) : Decimal(IndexText(SegmentsOf(path)[i]))

\* well-formed, and every index is below 2^31 before the offset is added
InGrammar(path) ==
    /\ WellFormed(path)
    /\ \A i \in 1..Len(SegmentsOf(path)) :
           ~WGe(Magnitude(IndexText(SegmentsOf(path)[i]), WZero), HARDENED)

\* a segment that is no number, or no leading m
Malformed(path) ==
    \/ ~starts_with_m(path)
    \/ \E i \in 1..Len(SegmentsOf(path)) : ~Decimal(IndexText(SegmentsOf(path)[i]))

InUint32(i) == i.hi >= 0 /\ i.hi < 65536

\* the point a compressed public key stands for
Decompress(pub) ==
    LET x == _parse256(Tail(pub))
        y == CHOOSE v \in 0..(P - 1) :
                 /\ (v * v) % P = (x * x * x + 7) % P
                 /\ v % 2 = pub[1] - 2
    IN  <<x, y>>

Compress(pt) == <<IF pt[2] % 2 = 0 THEN 2 ELSE 3>> \o _ser256(pt[1])

\* IL and IR of a normal derivation from `parent`
NormalHmac(parent, index) ==
    hmac_sha512(parent.chain_code, public_key(parent).val \o _ser32(index).val)

HardenedHmac(parent, index) ==
    hmac_sha512(parent.chain_code, <<0>> \o parent.key \o _ser32(index).val)

ChildHmac(parent, index) ==
    IF WGe(index, HARDENED) THEN HardenedHmac(parent, index)
    ELSE NormalHmac(parent, index)

IsDerive(op) == op \in {"derive_child", "derive_path", "derive_account", "derive_address"}

(***************************************************************************)
(* C1.  derive_child of a public-only key and an index below 2^31, when    *)
(* IL < n and the point sum is not the identity, succeeds and returns the  *)
(* public node whose key is the compressed IL*G + decompress(parent key).  *)
(* The code raises NotImplementedError there.                              *)
(***************************************************************************)
C1_PublicParentDerivesPublicChild ==
    (/\ last.op = "derive_child"
     /\ ~last.arg.is_private
     /\ InUint32(last.index)
     /\ ~WGe(last.index, HARDENED)
     /\ _parse256(Take(NormalHmac(last.arg, last.index), KeyLen)) < N
     /\ point_add(scalar_multiply(_parse256(Take(NormalHmac(last.arg, last.index),
                                                 KeyLen)), <<GX, GY>>),
                  Decompress(last.arg.key)) # Infinity)
    => /\ last.status = "ok"
       /\ ~last.node.is_private
       /\ last.node.key =
              Compress(point_add(
                  scalar_multiply(_parse256(Take(NormalHmac(last.arg, last.index),
                                                 KeyLen)), <<GX, GY>>),
                  Decompress(last.arg.key)))

C1_Witness ==
    /\ last.op = "derive_child"
    /\ ~last.arg.is_private
    /\ last.arg.depth = 1
    /\ last.index = WZero
    /\ _parse256(Take(NormalHmac(last.arg, last.index), KeyLen)) < N
    /\ last.status = "NotImplemented"

(***************************************************************************)
(* C3.  derive_path of a path with a malformed segment fails with          *)
(* InvalidPath before any derive_child call is made.  The code parses each *)
(* segment only when the walk reaches it.                                  *)
(***************************************************************************)
C3_MalformedPathFailsBeforeAnyDerivation ==
    (last.op = "derive_path" /\ Malformed(last.path))
    => (last.status = "InvalidPath" /\ last.calls = <<>>)

C3_Witness ==
    /\ last.op = "derive_path"
    /\ last.path = <<"m", "/", "0", "/", "x">>
    /\ last.arg.is_private
    /\ last.calls = <<WZero>>
    /\ last.nHmac = 1
    /\ last.status = "InvalidPath"

(***************************************************************************)
(* C4.  derive_path accepts exactly the strings of the grammar: any other  *)
(* string is rejected with InvalidPath, and every index handed to          *)
(* derive_child is in [0, 2^32) with its top bit set iff the segment bears *)
(* a hardened marker.                                                      *)
(***************************************************************************)
C4_PathGrammarIsExact ==
    last.op = "derive_path"
    => /\ ~InGrammar(last.path) => last.status = "InvalidPath"
       /\ InGrammar(last.path) => last.status # "InvalidPath"
       /\ \A i \in 1..Len(last.calls) :
              /\ InUint32(last.calls[i])
              /\ WGe(last.calls[i], HARDENED) <=> Marked(SegmentsOf(last.path)[i])

C4_Witness ==
    /\ last.op = "derive_path"
    /\ last.path = <<"m", "/", "2", "1", "4", "7", "4", "8", "3", "6", "4", "8">>
    /\ last.status = "ok"
    /\ last.calls = <<HARDENED>>
    /\ last.node.child_index = HARDENED

(***************************************************************************)
(* C5.  derive_child of a public-only key and an index >= 2^31 fails with  *)
(* InvalidDerivation and returns no node, before any HMAC or curve         *)
(* arithmetic; so does a path walk whose first step is such a call.        *)
(***************************************************************************)
C5_HardenedFromPublicRejected ==
    /\ (last.op = "derive_child" /\ ~last.arg.is_private
            /\ WGe(last.index, HARDENED))
       => (/\ last.status = "InvalidDerivation"
           /\ last.node = NoKey
           /\ last.nHmac = 0
           /\ last.nPoint = 0
           /\ cur = last.arg)
    /\ (last.op = "derive_path" /\ ~last.arg.is_private /\ last.calls # <<>>
            /\ WGe(last.calls[1], HARDENED))
       => (/\ last.status = "InvalidDerivation"
           /\ last.node = NoKey
           /\ last.nHmac = 0
           /\ last.nPoint = 0)

C5_Witness ==
    /\ last.op = "derive_child"
    /\ ~last.arg.is_private
    /\ last.arg.depth >= 1
    /\ last.index = HARDENED
    /\ last.status = "InvalidDerivation"

(***************************************************************************)
(* C6.  from_seed fails with InvalidSeedLength when the seed has fewer     *)
(* than 16 or more than 64 bytes, with InvalidMasterKey when IL = 0 or     *)
(* IL >= n, and otherwise returns the root [key = IL, chain_code = IR,     *)
(* depth 0, parent_fingerprint 00000000, child_index 0, private].          *)
(***************************************************************************)
SeedIL(seed) == Take(hmac_sha512(BitcoinSeed, seed), KeyLen)

SeedIR(seed) == Drop(hmac_sha512(BitcoinSeed, seed), KeyLen)

C6_FromSeed ==
    last.op = "from_seed"
    => IF Len(last.seed) < 16 \/ Len(last.seed) > 64
       THEN last.status = "InvalidSeedLength" /\ last.node = NoKey
       ELSE IF _parse256(SeedIL(last.seed)) = 0 \/ _parse256(SeedIL(last.seed)) >= N
       THEN last.status = "InvalidMasterKey" /\ last.node = NoKey
       ELSE /\ last.status = "ok"
            /\ last.node = [key |-> SeedIL(last.seed),
                            chain_code |-> SeedIR(last.seed),
                            depth |-> 0,
                            parent_fingerprint |-> <<0, 0, 0, 0>>,
                            child_index |-> WZero,
                            is_private |-> TRUE]
            /\ Len(last.node.key) = KeyLen
            /\ Len(last.node.chain_code) = KeyLen
            /\ cur = last.node

C6_Witness ==
    /\ last.op = "from_seed"
    /\ Len(last.seed) = 16
    /\ last.status = "ok"
    /\ last.node.depth = 0

\* the other cases of C6 happen too
C6_WitnessZero ==
    /\ last.op = "from_seed"
    /\ last.status = "InvalidMasterKey"
    /\ _parse256(SeedIL(last.seed)) = 0

C6_WitnessOrder ==
    /\ last.op = "from_seed"
    /\ last.status = "InvalidMasterKey"
    /\ _parse256(SeedIL(last.seed)) = N

(***************************************************************************)
(* C7.  derive_path of a private key and a well-formed path of j segments, *)
(* when no step fails, returns a private node of depth k.depth + j (3 for  *)
(* derive_account, 5 for derive_address, from a root); each step adds      *)
(* exactly 1 and depth never decreases.                                    *)
(***************************************************************************)
C7_PathDepth ==
    /\ (last.op = "derive_path" /\ last.arg.is_private /\ InGrammar(last.path)
            /\ last.status = "ok")
       => (/\ last.node.is_private
           /\ last.node.depth = last.arg.depth + NumSegments(last.path))
    /\ (last.op = "derive_account" /\ last.status = "ok")
       => (last.node.is_private /\ last.node.depth = last.arg.depth + 3)
    /\ (last.op = "derive_address" /\ last.status = "ok")
       => (last.node.is_private /\ last.node.depth = last.arg.depth + 5)
    /\ (last.op = "derive_child" /\ last.status = "ok")
       => last.node.depth = last.arg.depth + 1
    /\ (IsDerive(last.op) /\ last.op # "derive_child" /\ last.status = "ok")
       => last.node.depth = last.arg.depth + Len(last.calls)
    /\ (IsDerive(last.op) /\ last.status = "ok")
       => last.node.depth >= last.arg.depth

C7_Witness ==
    /\ last.op = "derive_address"
    /\ last.status = "ok"
    /\ last.arg.depth = 0
    /\ last.node.depth = 5
    /\ last.node.is_private

(***************************************************************************)
(* C8.  derive_path(k, "m") returns k itself, all six fields unchanged,    *)
(* and makes no derive_child call, for private and public k of any depth.  *)
(***************************************************************************)
C8_PathIdentity ==
    (last.op = "derive_path" /\ last.path = <<"m">>)
    => /\ last.status = "ok"
       /\ last.node = last.arg
       /\ last.calls = <<>>
       /\ last.nHmac = 0
       /\ cur = last.arg

C8_Witness ==
    /\ last.op = "derive_path"
    /\ last.path = <<"m">>
    /\ ~last.arg.is_private
    /\ last.arg.depth >= 1
    /\ last.node = last.arg

(***************************************************************************)
(* C9.  neuter(neuter(k)) = neuter(k) field by field, neuter(k).public_key *)
(* = k.public_key, neuter(k) is not private and copies chain_code, depth,  *)
(* parent_fingerprint and child_index of k.                                *)
(***************************************************************************)
NeuterLaws(k) ==
    /\ neuter(k).status = "ok"
    /\ neuter(neuter(k).node).status = "ok"
    /\ neuter(neuter(k).node).node = neuter(k).node
    /\ public_key(neuter(k).node) = public_key(k)
    /\ public_key(k).err = ""
    /\ ~neuter(k).node.is_private
    /\ neuter(k).node.chain_code = k.chain_code
    /\ neuter(k).node.depth = k.depth
    /\ neuter(k).node.parent_fingerprint = k.parent_fingerprint
    /\ neuter(k).node.child_index = k.child_index

C9_Neuter ==
    /\ cur # NoKey => NeuterLaws(cur)
    /\ last.op = "neuter"
       => (/\ last.status = "ok"
           /\ last.node = neuter(last.arg).node
           /\ NeuterLaws(last.arg)
           /\ cur = last.node)

C9_Witness ==
    /\ last.op = "neuter"
    /\ last.arg.is_private
    /\ last.arg.depth >= 1
    /\ last.status = "ok"
    /\ ~last.node.is_private
    /\ Len(last.node.key) = KeyLen + 1

(***************************************************************************)
(* C10.  A successful derive_child(parent, index) returns a child with     *)
(* depth = parent.depth + 1, parent_fingerprint = the first 4 bytes of     *)
(* RIPEMD160(SHA256(parent's compressed public key)), child_index = index  *)
(* and chain_code = IR; the fingerprint of a private key is that of its    *)
(* neutered form.                                                          *)
(***************************************************************************)
C10_ChildFields ==
    /\ (last.op = "derive_child" /\ last.status = "ok")
       => (/\ last.node.depth = last.arg.depth + 1
           /\ last.node.parent_fingerprint =
                  Take(ripemd160(sha256(public_key(last.arg).val)), 4)
           /\ Len(last.node.parent_fingerprint) = 4
           /\ last.node.child_index = last.index
           /\ last.node.chain_code = Drop(ChildHmac(last.arg, last.index), KeyLen))
    /\ cur # NoKey => fingerprint(cur) = fingerprint(neuter(cur).node)

C10_Witness ==
    /\ last.op = "derive_child"
    /\ last.status = "ok"
    /\ last.arg.depth = 1
    /\ last.index = HARDENED
    /\ last.node.depth = 2

(***************************************************************************)
(* C2.  base58check_decode(base58check_encode(v, p)) returns <<v, p>> for  *)
(* every single-byte version v and every payload p; for a version of any   *)
(* other length it returns the first byte of v \o p and the rest.          *)
(***************************************************************************)
C2_RoundTripOneByteVersion ==
    b58.phase = "decoded"
    => /\ b58.status = "ok"
       /\ b58.out_version = Take(b58.version \o b58.payload, 1)
       /\ b58.out_payload = Drop(b58.version \o b58.payload, 1)
       /\ Len(b58.version) = 1
          => (b58.out_version = b58.version /\ b58.out_payload = b58.payload)

C2_Witness ==
    /\ b58.phase = "decoded"
    /\ b58.version = <<0>>
    /\ b58.payload = <<0, 255, 0>>
    /\ b58.status = "ok"
    /\ b58.out_version = <<0>>
    /\ b58.out_payload = <<0, 255, 0>>

\* the round trip as stated for every version string, the 4-byte prefixes
\* of extended keys and the empty one included
C2_RoundTripAnyVersion ==
    b58.phase = "decoded"
    => /\ b58.status = "ok"
       /\ b58.out_version = b58.version
       /\ b58.out_payload = b58.payload

(***************************************************************************)
(* C11.  For every entropy of 16, 20, 24, 28 or 32 bytes,                  *)
(* entropy_to_mnemonic succeeds with 3 words per 4 bytes and               *)
(* validate_mnemonic of the mnemonic it returned is true.                  *)
(***************************************************************************)
ValidEntropy(e) == Len(e) \in {16, 20, 24, 28, 32}

C11_MnemonicRoundTrip ==
    /\ (mn.op = "entropy_to_mnemonic" /\ mn.language = "english"
            /\ ValidEntropy(mn.entropy))
       => (/\ mn.status = "ok"
           /\ Len(split_words(mn.out)) = (3 * Len(mn.entropy)) \div 4)
    /\ (mn.op = "validate_mnemonic" /\ mn.language = "english"
            /\ ValidEntropy(mn.entropy) /\ mn.out # <<>> /\ mn.phrase = mn.out)
       => (mn.status = "ok" /\ mn.valid)

\* the round trip on an entropy with a leading zero byte
C11_Witness ==
    /\ mn.op = "validate_mnemonic"
    /\ mn.entropy = <<0>> \o Repeat(255, 15)
    /\ mn.phrase = mn.out
    /\ Len(split_words(mn.phrase)) = 12
    /\ mn.valid

\* the round trip on an entropy whose checksum bits are all zero
C11_WitnessZeroChecksum ==
    /\ mn.op = "validate_mnemonic"
    /\ mn.entropy = Repeat(28, 16)
    /\ BitsOfBytes(sha256(mn.entropy))[1] = 0
    /\ BitsOfBytes(sha256(mn.entropy))[2] = 0
    /\ BitsOfBytes(sha256(mn.entropy))[3] = 0
    /\ BitsOfBytes(sha256(mn.entropy))[4] = 0
    /\ mn.phrase = mn.out
    /\ mn.valid

(***************************************************************************)
(* C12.  validate_mnemonic reports valid iff the word count is one of 12,  *)
(* 15, 18, 21, 24, every word is a word of the table, and the trailing     *)
(* count/3 bits equal the leading count/3 bits of SHA256 of the entropy    *)
(* bytes the other bits spell.                                             *)
(***************************************************************************)
InTable(w) == w >= 3 /\ (w - 3) % 5 = 0 /\ (w - 3) \div 5 < TableSize

\* bit k (from 1) of the 11-bit indices of the words, in order
PhraseBit(words, k) ==
    (((words[((k - 1) \div 11) + 1] - 3) \div 5) \div (2 ^ (10 - ((k - 1) % 11)))) % 2

PhraseEntropy(words) ==
    [j \in 1..((4 * Len(words)) \div 3) |->
        128 * PhraseBit(words, 8 * j - 7) + 64 * PhraseBit(words, 8 * j - 6)
        + 32 * PhraseBit(words, 8 * j - 5) + 16 * PhraseBit(words, 8 * j - 4)
        + 8 * PhraseBit(words, 8 * j - 3) + 4 * PhraseBit(words, 8 * j - 2)
        + 2 * PhraseBit(words, 8 * j - 1) + PhraseBit(words, 8 * j)]

ChecksumHolds(words) ==
    \A i \in 1..(Len(words) \div 3) :
        PhraseBit(words, 11 * Len(words) - (Len(words) \div 3) + i)
            = BitsOfBytes(sha256(PhraseEntropy(words)))[i]

ShouldBeValid(words) ==
    /\ Len(words) \in {12, 15, 18, 21, 24}
    /\ \A i \in 1..Len(words) : InTable(words[i])
    /\ ChecksumHolds(words)

C12_ValidIffThreeConditions ==
    (mn.op = "validate_mnemonic" /\ mn.language = "english")
    => /\ mn.status = "ok"
       /\ mn.valid <=> ShouldBeValid(split_words(mn.phrase))

\* right count, every word in the table, wrong checksum: invalid
C12_Witness ==
    /\ mn.op = "validate_mnemonic"
    /\ mn.language = "english"
    /\ Len(split_words(mn.phrase)) = 12
    /\ \A i \in 1..12 : InTable(split_words(mn.phrase)[i])
    /\ ~ChecksumHolds(split_words(mn.phrase))
    /\ ~mn.valid

C12_WitnessUnknownWord ==
    /\ mn.op = "validate_mnemonic"
    /\ mn.language = "english"
    /\ Len(split_words(mn.phrase)) = 12
    /\ ~InTable(split_words(mn.phrase)[1])
    /\ InTable(split_words(mn.phrase)[1] - 1)
    /\ ~mn.valid

(***************************************************************************)
(* C13.  The wordlist file of a language is read at most once, however     *)
(* many mnemonic operations are made.  The code reads it on every call.    *)
(***************************************************************************)
C13_WordlistLoadedOnce ==
    \A l \in DOMAIN mn.loads : mn.loads[l] <= 1

C13_Witness ==
    /\ mn.op = "validate_mnemonic"
    /\ mn.phrase = mn.out
    /\ mn.valid
    /\ mn.calls = 2
    /\ mn.loads["english"] = 2

(***************************************************************************)
(* C14.  Every key reachable from from_seed by derive_child, derive_path   *)
(* and neuter has depth in 0..255.  The code sets depth = parent.depth + 1 *)
(* without a limit.                                                        *)
(***************************************************************************)
C14_DepthInByte ==
    /\ cur # NoKey => cur.depth \in 0..255
    /\ (last.status = "ok" /\ last.node # NoKey) => last.node.depth \in 0..255

C14_Witness ==
    /\ last.op = "derive_child"
    /\ last.status = "ok"
    /\ last.arg.depth = 255
    /\ last.node.depth = 256
    /\ cur = last.node

(***************************************************************************)
(* C15.  serialize() of every key produced by from_seed, derive_child,     *)
(* derive_path or neuter is the Base58 encoding of the payload version(4), *)
(* depth(1), parent fingerprint(4), child index(4, big-endian), chain      *)
(* code, key field (00 and the scalar, or the compressed public key),      *)
(* followed by the first 4 bytes of the double SHA256 of the payload; the  *)
(* version is the xprv prefix iff the key is private.  (The 32-byte fields *)
(* have KeyLen digits here, so the 78 bytes are 14 + 2 * KeyLen.)          *)
(***************************************************************************)
SerializedBytes == base58_decode(last.out).val

PayloadLen == 4 + 1 + 4 + 4 + KeyLen + (KeyLen + 1)

BigEndian32(i) ==
    <<i.hi \div 256, i.hi % 256, i.lo \div 256, i.lo % 256>>

C15_SerializeLayout ==
    last.op = "serialize"
    => /\ last.status = "ok"
       /\ Len(SerializedBytes) = PayloadLen + 4
       /\ SubSeq(SerializedBytes, 1, 4) =
              (IF last.arg.is_private THEN <<4, 136, 173, 228>> ELSE <<4, 136, 178, 30>>)
       /\ SerializedBytes[5] = last.arg.depth
       /\ SubSeq(SerializedBytes, 6, 9) = last.arg.parent_fingerprint
       /\ SubSeq(SerializedBytes, 10, 13) = BigEndian32(last.arg.child_index)
       /\ SubSeq(SerializedBytes, 14, 13 + KeyLen) = last.arg.chain_code
       /\ SubSeq(SerializedBytes, 14 + KeyLen, PayloadLen) =
              (IF last.arg.is_private THEN <<0>> \o last.arg.key ELSE last.arg.key)
       /\ SubSeq(SerializedBytes, PayloadLen + 1, PayloadLen + 4) =
              Take(sha256(sha256(SubSeq(SerializedBytes, 1, PayloadLen))), 4)
       /\ last.out = base58check_encode(SubSeq(SerializedBytes, 1, 4),
                                        SubSeq(SerializedBytes, 5, PayloadLen))
       /\ cur = last.arg

\* a public key at depth 1 with a hardened index is serialized
C15_Witness ==
    /\ last.op = "serialize"
    /\ last.status = "ok"
    /\ ~last.arg.is_private
    /\ last.arg.depth = 1
    /\ WGe(last.arg.child_index, HARDENED)
    /\ SubSeq(SerializedBytes, 1, 4) = MAINNET_PUBLIC

\* the key of depth 256 cannot be serialized
C15_WitnessDeep ==
    /\ last.op = "serialize"
    /\ last.arg.depth = 256
    /\ last.status = "ValueError"

(***************************************************************************)
(* C16.  base58check_decode fails with ChecksumMismatch, and returns no    *)
(* pair, for every string whose decoded last 4 bytes differ from the first *)
(* 4 bytes of SHA256(SHA256(the bytes before them)), strings that decode   *)
(* to fewer than 4 bytes included.                                         *)
(***************************************************************************)
DecodedBytes == base58_decode(b58.encoded).val

ChecksumDiffers ==
    TakeLast(DecodedBytes, 4) # Take(sha256(sha256(DropLast(DecodedBytes, 4))), 4)

C16_BadChecksumRejected ==
    (b58.phase \in {"decoded", "checked"} /\ ChecksumDiffers)
    => /\ b58.status = "ChecksumMismatch"
       /\ b58.out_version = <<>>
       /\ b58.out_payload = <<>>

\* a damaged string of full length is rejected
C16_Witness ==
    /\ b58.phase = "checked"
    /\ Len(DecodedBytes) >= 8
    /\ ChecksumDiffers
    /\ b58.status = "ChecksumMismatch"

\* strings that decode to 0 and to 1..3 bytes are rejected
C16_WitnessEmpty ==
    /\ b58.phase = "checked"
    /\ b58.encoded = <<>>
    /\ DecodedBytes = <<>>
    /\ b58.status = "ChecksumMismatch"

C16_WitnessShort ==
    /\ b58.phase = "checked"
    /\ Len(DecodedBytes) \in 1..3
    /\ b58.status = "ChecksumMismatch"

(***************************************************************************)
(* C17.  For 32-byte r, 32-byte s <= floor(N/2) and v in {0, 1, 27, 28},   *)
(* compact_signature returns r and yParityAndS whose top bit is the parity *)
(* of v and whose other bits are s, and expand_signature of the result     *)
(* returns r, s and 27 + parity; compact_signature rejects any other v,    *)
(* any s > floor(N/2) and any r or s of another length.                    *)
(***************************************************************************)
ValueOf(b) == KeyBase * b[1] + b[2]

Parity(v) == IF v \in {1, 28} THEN 1 ELSE 0

Compactable ==
    /\ Len(sig.r) = KeyLen
    /\ Len(sig.s) = KeyLen
    /\ sig.v \in {0, 1, 27, 28}
    /\ 2 * ValueOf(sig.s) <= N

C17_CompactSignature ==
    /\ (sig.op = "compact_signature" /\ Compactable)
       => (/\ sig.status = "ok"
           /\ sig.out_r = sig.r
           /\ Len(sig.yParityAndS) = KeyLen
           /\ ValueOf(sig.yParityAndS) \div TopBit = Parity(sig.v)
           /\ ValueOf(sig.yParityAndS) % TopBit = ValueOf(sig.s))
    /\ (sig.op = "compact_signature" /\ ~Compactable)
       => (sig.status # "ok" /\ sig.out_r = <<>> /\ sig.yParityAndS = <<>>)
    /\ sig.op = "expand_signature"
       => (/\ Compactable
           /\ sig.status = "ok"
           /\ sig.exp_r = sig.r
           /\ sig.exp_s = sig.s
           /\ sig.exp_v = 27 + Parity(sig.v))

\* s = floor(N/2), v = 28: compacted with the top bit set, and expanded
C17_Witness ==
    /\ sig.op = "expand_signature"
    /\ ValueOf(sig.s) = N \div 2
    /\ sig.v = 28
    /\ ValueOf(sig.yParityAndS) = TopBit + N \div 2
    /\ sig.exp_s = sig.s
    /\ sig.exp_v = 28

C17_WitnessHighS ==
    /\ sig.op = "compact_signature"
    /\ Len(sig.r) = KeyLen
    /\ Len(sig.s) = KeyLen
    /\ ValueOf(sig.s) = N \div 2 + 1
    /\ sig.v = 27
    /\ sig.status = "HighS"

(***************************************************************************)
(* C18.  Every private node the derivation API holds or returns stores a   *)
(* scalar k with 1 <= k <= n - 1: from_seed rejects IL = 0 and IL >= n,    *)
(* and derive_child of a private parent rejects IL >= n and a child scalar *)
(* (IL + parent scalar) mod n equal to 0.                                  *)
(***************************************************************************)
ScalarInRange(k) ==
    (k # NoKey /\ k.is_private)
    => /\ Len(k.key) = KeyLen
       /\ 1 <= _parse256(k.key)
       /\ _parse256(k.key) <= N - 1

ChildIL(parent, index) == _parse256(Take(ChildHmac(parent, index), KeyLen))

ChildScalar(parent, index) == (ChildIL(parent, index) + _parse256(parent.key)) % N

C18_PrivateScalarInRange ==
    /\ ScalarInRange(cur)
    /\ ScalarInRange(last.arg)
    /\ ScalarInRange(last.node)
    /\ (/\ last.op = "from_seed"
        /\ Len(last.seed) >= 16
        /\ Len(last.seed) <= 64
        /\ \/ _parse256(SeedIL(last.seed)) = 0
           \/ _parse256(SeedIL(last.seed)) >= N)
       => last.status = "InvalidMasterKey" /\ last.node = NoKey
    /\ (/\ last.op = "derive_child"
        /\ last.arg.is_private
        /\ InUint32(last.index)
        /\ \/ ChildIL(last.arg, last.index) >= N
           \/ ChildScalar(last.arg, last.index) = 0)
       => last.status = "InvalidChildKey" /\ last.node = NoKey
    /\ (/\ last.op = "derive_child"
        /\ last.arg.is_private
        /\ last.status = "ok")
       => /\ last.node.is_private
          /\ _parse256(last.node.key) = ChildScalar(last.arg, last.index)

\* a private child derived from a private parent
C18_Witness ==
    /\ last.op = "derive_child"
    /\ last.arg.is_private
    /\ last.status = "ok"
    /\ last.node.is_private
    /\ last.node.depth = 2

\* a child scalar of 0 is rejected although IL < n
C18_WitnessZeroScalar ==
    /\ last.op = "derive_child"
    /\ last.arg.is_private
    /\ InUint32(last.index)
    /\ ChildIL(last.arg, last.index) < N
    /\ ChildScalar(last.arg, last.index) = 0
    /\ last.status = "InvalidChildKey"

\* IL >= n is rejected by derive_child
C18_WitnessLargeIL ==
    /\ last.op = "derive_child"
    /\ last.arg.is_private
    /\ InUint32(last.index)
    /\ ChildIL(last.arg, last.index) >= N
    /\ last.status = "InvalidChildKey"

\* the largest scalar, n - 1, is a master key
C18_WitnessTopScalar ==
    /\ last.op = "from_seed"
    /\ last.status = "ok"
    /\ _parse256(last.node.key) = N - 1

(***************************************************************************)
(* C20.  base58_encode(d) is as many '1' characters as d has leading zero  *)
(* bytes, followed by the base-58 digits of the number d stands for, most  *)
(* significant first and without a leading zero digit; and                 *)
(* base58_decode(base58_encode(d)) = d.  The empty string and strings of   *)
(* zero bytes only are included.                                           *)
(***************************************************************************)
\* pairwise coprime; their product exceeds every number compared below, so
\* two numbers that agree modulo each of them are equal
Moduli == {32749, 32719, 32717, 32713, 32707}

\* the number with the given digits, most significant first, modulo m
RECURSIVE ValueMod(_, _, _, _)
ValueMod(digits, base, m, acc) ==
    IF digits = <<>> THEN acc
    ELSE ValueMod(Tail(digits), base, m, (acc * base + Head(digits)) % m)

DigitOf(c) == (CHOOSE i \in 1..BASE : ALPHABET[i] = c) - 1

ZeroBytes(d) ==
    IF \A i \in 1..Len(d) : d[i] = 0 THEN Len(d)
    ELSE (CHOOSE i \in 1..Len(d) : d[i] # 0 /\ \A j \in 1..(i - 1) : d[j] = 0) - 1

C20_Base58Encoding ==
    /\ b58.phase \in {"raw_encoded", "raw_decoded"}
       => LET z == ZeroBytes(b58.data)
              digits == Drop(b58.text, z)
          IN  /\ Len(b58.text) >= z
              /\ \A i \in 1..z : b58.text[i] = "1"
              /\ \A i \in 1..Len(digits) : \E j \in 1..BASE : ALPHABET[j] = digits[i]
              /\ digits # <<>> => digits[1] # "1"
              /\ (z = Len(b58.data)) <=> (digits = <<>>)
              /\ \A m \in Moduli :
                     ValueMod([i \in 1..Len(digits) |-> DigitOf(digits[i])], BASE, m, 0)
                         = ValueMod(b58.data, 256, m, 0)
    /\ b58.phase = "raw_decoded"
       => b58.status = "ok" /\ b58.back = b58.data

\* two leading zero bytes, then a number of two bytes
C20_Witness ==
    /\ b58.phase = "raw_decoded"
    /\ b58.data = <<0, 0, 1, 255>>
    /\ b58.text = <<"1", "1", "9", "p">>
    /\ b58.back = b58.data

\* the empty string
C20_WitnessEmpty ==
    /\ b58.phase = "raw_decoded"
    /\ b58.data = <<>>
    /\ b58.text = <<>>
    /\ b58.back = <<>>

\* zero bytes only
C20_WitnessZeros ==
    /\ b58.phase = "raw_decoded"
    /\ b58.data = <<0, 0, 0>>
    /\ b58.text = <<"1", "1", "1">>
    /\ b58.back = <<0, 0, 0>>

(***************************************************************************)
(* C19.  No call of from_seed, derive_child, derive_path, neuter,          *)
(* serialize, public_key or fingerprint, successful or failing, changes a  *)
(* field of an ExtendedKey constructed before the call: the parent of a    *)
(* derivation and the original of neuter stay as they were.  A successful  *)
(* derive_child, and a successful derive_path of at least one segment,     *)
(* returns an object constructed during the call, hence distinct from its  *)
(* parent; neuter of a private key returns a new object, neuter of a       *)
(* public key the key itself.                                              *)
(***************************************************************************)
\* the objects of heap are the first objects of the heap after, unchanged
Preserved(before, after) ==
    /\ Len(after) >= Len(before)
    /\ \A i \in 1..Len(before) : after[i] = before[i]

Fresh(before, ref) == ref > Len(before)

FrameStep ==
    /\ Preserved(objs.heap, objs'.heap)
    /\ objs'.ret \in 0..Len(objs'.heap)
    /\ objs'.status = "ok" <=> (objs'.ret # 0 \/ objs'.op \in {"serialize", "public_key", "fingerprint"})
    /\ (objs'.op = "derive_child" /\ objs'.status = "ok")
       => /\ Fresh(objs.heap, objs'.ret)
          /\ objs'.ret # objs'.self
          /\ objs'.heap[objs'.ret].depth = objs.heap[objs'.self].depth + 1
    /\ (objs'.op = "derive_path" /\ objs'.status = "ok")
       => IF objs'.path = <<"m">> THEN objs'.ret = objs'.self /\ objs'.heap = objs.heap
          ELSE /\ Fresh(objs.heap, objs'.ret)
               /\ objs'.ret # objs'.self
               /\ Len(objs'.heap) = Len(objs.heap) + Len(Split(objs'.path)) - 1
    /\ (objs'.op = "neuter" /\ objs'.status = "ok")
       => IF objs.heap[objs'.self].is_private
          THEN /\ Fresh(objs.heap, objs'.ret)
               /\ ~objs'.heap[objs'.ret].is_private
               /\ objs'.heap[objs'.self].is_private
          ELSE objs'.ret = objs'.self /\ objs'.heap = objs.heap
    /\ objs'.op \in {"serialize", "public_key", "fingerprint"}
       => objs'.heap = objs.heap

C19_ConstructedKeysNeverChange == [][FrameStep]_vars

\* a private key was neutered: the heap holds the original, still private,
\* and after it the public key that neuter returned
C19_Witness ==
    /\ objs.op = "neuter"
    /\ objs.status = "ok"
    /\ objs.heap[objs.self].is_private
    /\ objs.ret = Len(objs.heap)
    /\ objs.ret # objs.self
    /\ ~objs.heap[objs.ret].is_private

\* a child was derived from a parent that has a child already
C19_WitnessChild ==
    /\ objs.op = "derive_child"
    /\ objs.status = "ok"
    /\ objs.ret = 3
    /\ objs.self = 1
    /\ objs.heap[2].depth = 1
    /\ objs.heap[3].depth = 1

\* a path of two segments failed at its second segment: the child of the
\* first segment was constructed and the master is as it was
C19_WitnessFailingPath ==
    /\ objs.op = "derive_path"
    /\ objs.status # "ok"
    /\ Len(objs.heap) = 2
    /\ objs.self = 1
    /\ objs.heap[2].depth = 1

\* a call on a public key raised and left the heap as it was
C19_WitnessFailingChild ==
    /\ objs.op = "derive_child"
    /\ objs.status = "InvalidDerivation"
    /\ ~objs.heap[objs.self].is_private

(***************************************************************************)
(* C21.  scalar_multiply(k, P) is the k-fold point_add of P with itself    *)
(* for every k >= 0, the identity for k = 0; point_add(inf, Q) = Q,        *)
(* point_add(P, inf) = P and point_add(P, -P) = inf; _point(k) signals     *)
(* InvalidKey when k*G is the identity (k = 0 or a multiple of the group   *)
(* order) and otherwise returns the compressed k*G.                        *)
(***************************************************************************)
\* acc + P + ... + P with n terms P, by n uses of point_add
RECURSIVE AddTimes(_, _, _)
AddTimes(acc, pt, n) ==
    IF n = 0 THEN acc
    ELSE CHOOSE out \in {point_add(sum, pt) : sum \in {AddTimes(acc, pt, n - 1)}} : TRUE

\* the same, the terms taken twenty at a time
RECURSIVE AddMany(_, _, _)
AddMany(acc, pt, n) ==
    IF n <= 20 THEN AddTimes(acc, pt, n)
    ELSE CHOOSE out \in
             {AddMany(sum, pt, n - 20) : sum \in {AddTimes(acc, pt, 20)}} : TRUE

\* P + P + ... + P, k times, by k uses of point_add
KFold(k, pt) == AddMany(Infinity, pt, k)

IsPoint(pt) == pt = Infinity \/ (Len(pt) = 2 /\ OnCurve(pt))

C21_CurveEngine ==
    /\ ec.op = "scalar_multiply"
       => /\ ec.out = KFold(ec.k, ec.p)
          /\ IsPoint(ec.out)
          /\ ec.k = 0 => ec.out = Infinity
    /\ ec.op = "point_add"
       => /\ IsPoint(ec.out)
          /\ ec.p = Infinity => ec.out = ec.q
          /\ ec.q = Infinity => ec.out = ec.p
          /\ (ec.p # Infinity /\ ec.q = Negated(ec.p)) => ec.out = Infinity
    /\ ec.op = "_point"
       => IF ec.k % N = 0
          THEN ec.status = "InvalidKey" /\ ec.out = <<>>
          ELSE /\ ec.status = "ok"
               /\ ec.out = Compress(KFold(ec.k, <<GX, GY>>))

\* a scalar whose binary expansion has several bits set
C21_Witness ==
    /\ ec.op = "scalar_multiply"
    /\ ec.k = 107
    /\ ec.p = <<GX, GY>>
    /\ ec.out # Infinity
    /\ ec.out = KFold(107, <<GX, GY>>)

\* twice the group order gives the identity, and _point signals it
C21_WitnessOrder ==
    /\ ec.op = "_point"
    /\ ec.k = 2 * N
    /\ ec.status = "InvalidKey"

C21_WitnessZero ==
    /\ ec.op = "scalar_multiply"
    /\ ec.k = 0
    /\ ec.p = <<GX, GY>>
    /\ ec.out = Infinity

C21_WitnessInverse ==
    /\ ec.op = "point_add"
    /\ ec.p = <<GX, GY>>
    /\ ec.q = <<GX, P - GY>>
    /\ ec.out = Infinity

(***************************************************************************)
(* C22.  entropy_to_mnemonic(e) fails with InvalidEntropyLength unless     *)
(* len(e) is 16, 20, 24, 28 or 32.  Otherwise the bits of e followed by    *)
(* the len(e)*8/32 leading bits of SHA256(e) are a whole number of 11-bit  *)
(* groups, 12, 15, 18, 21 or 24 of them; every group is a number in        *)
(* 0..2047, and the mnemonic is the words of the table at those numbers,   *)
(* in the order of the groups, separated by single spaces.                 *)
(***************************************************************************)
ChecksumLen(e) == (Len(e) * 8) \div 32

\* the bits of e, then the leading bits of SHA256(e)
AllBits(e) == BitsOfBytes(e) \o SubSeq(BitsOfBytes(sha256(e)), 1, ChecksumLen(e))

\* the number the i-th group of 11 bits spells
GroupValue(bits, i) == FromDigits(SubSeq(bits, 11 * (i - 1) + 1, 11 * i), 2, 0)

GroupsSpelled(bits, out) ==
    /\ Len(bits) % 11 = 0
    /\ Len(bits) \div 11 \in {12, 15, 18, 21, 24}
    /\ Len(out) = 2 * (Len(bits) \div 11) - 1
    /\ \A i \in 1..(Len(bits) \div 11) :
           /\ GroupValue(bits, i) \in 0..2047
           /\ out[2 * i - 1] = WordlistFile("english")[GroupValue(bits, i) + 1]
    /\ \A i \in 1..(Len(bits) \div 11 - 1) : out[2 * i] = SP

C22_EntropyToMnemonic ==
    mn.op = "entropy_to_mnemonic"
    => IF ~ValidEntropy(mn.entropy)
       THEN mn.status = "InvalidEntropyLength" /\ mn.out = <<>>
       ELSE mn.language = "english"
            => /\ mn.status = "ok"
               /\ Len(AllBits(mn.entropy)) = 8 * Len(mn.entropy) + ChecksumLen(mn.entropy)
               /\ Len(split_words(mn.out)) = Len(AllBits(mn.entropy)) \div 11
               /\ \E bits \in {AllBits(mn.entropy)} : GroupsSpelled(bits, mn.out)

\* 32 bytes: 256 + 8 bits, 24 words, the last one spelled by entropy and
\* checksum bits together
C22_Witness ==
    /\ mn.op = "entropy_to_mnemonic"
    /\ mn.entropy = Repeat(255, 32)
    /\ mn.language = "english"
    /\ mn.status = "ok"
    /\ Len(split_words(mn.out)) = 24
    /\ mn.out[1] = Word(2047)
    /\ mn.out[47] # Word(2047)

\* 17 bytes lie between two legal lengths
C22_WitnessBadLength ==
    /\ mn.op = "entropy_to_mnemonic"
    /\ Len(mn.entropy) = 17
    /\ mn.status = "InvalidEntropyLength"

\* the length is checked before the wordlist is loaded
C22_WitnessBadLengthNoWordlist ==
    /\ mn.op = "entropy_to_mnemonic"
    /\ Len(mn.entropy) = 0
    /\ mn.language = "klingon"
    /\ mn.status = "InvalidEntropyLength"

\* 20 bytes: 15 words
C22_WitnessFifteen ==
    /\ mn.op = "entropy_to_mnemonic"
    /\ Len(mn.entropy) = 20
    /\ mn.status = "ok"
    /\ Len(split_words(mn.out)) = 15

====
